---------------------------- MODULE Spec2Model ----------------------------
(***************************************************************************)
(* A model of karpathy/cryptos: the secp256k1 arithmetic, ECDSA, the       *)
(* transaction codec and validation, and the peer-to-peer node.            *)
(*                                                                         *)
(* Byte strings are sequences of integers 0..255.  The wire layouts keep   *)
(* their widths.  Two things are scaled so that TLC can enumerate them:    *)
(* the curve (y^2 = x^3 + 7 over a small prime field, with a generator of  *)
(* prime order n < p, as for secp256k1) and the hash functions (small      *)
(* mixing functions standing in for SHA-256 and RIPEMD-160; no property    *)
(* checked here rests on their collision resistance).  The fields that     *)
(* hold a SHA-256 digest or a curve coordinate have the scaled width.      *)
(***************************************************************************)
EXTENDS Integers, Sequences, FiniteSets, TLC

VARIABLES
    \* ---- ECDSA (ecdsa.py) ----
    secret_key,     \* the signer's secret key
    pub_key,        \* the public key verify is given
    message,        \* the message being signed
    ephemeral,      \* the scalar gen_secret_key returned inside sign
    sig,            \* the Signature returned by sign, or NoSig
    verdict,        \* what verify returned: "none", "true", "false", "raise"
    epc,            \* position of the sign/verify scenario
    \* ---- NetworkEnvelope codec (network.py) ----
    stream,         \* the bytes NetworkEnvelope.decode is given
    env_net,        \* the net it decodes for
    envelope,       \* what decode returned, or a failure
    reencoded,      \* what encode() of the decoded envelope returned
    envpc,          \* position of the decode scenario
    \* ---- SimpleNode (network.py) ----
    net,            \* SimpleNode.net
    wire,           \* frames the peer has sent that the node has not read yet
    arrived,        \* every frame the peer has sent, in order (history)
    consumed,       \* the frames read() has taken off the stream, in order
    sent,           \* the envelopes the node has sent, in order
    npc,            \* "idle", "waiting" (in wait_for's loop, blocked in
                    \* read), "returning" (loop left), "crashed" (read raised)
    want,           \* the commands of wait_for's message_classes
    caller,         \* who called wait_for: "user", "hs_version", "hs_verack"
    callStart,      \* Len(consumed) when the running wait_for was called
    result,         \* the message the last wait_for returned to the user
    handshaken,     \* handshake() has returned
    ncalls,         \* the number of wait_for calls the user has made
    \* ---- Tx codec and validation (transaction.py) ----
    raw,            \* the bytes Tx.decode is given
    tx,             \* the Tx in hand: decoded from raw, or built by a wallet
    txdb,           \* what TxFetcher can fetch: transaction id -> raw bytes
    enc_index,      \* the sig_index Tx.encode was called with (-1: none)
    out,            \* what Tx.encode returned, or a failure
    vres,           \* what Tx.validate returned and how many scripts it ran
    saved,          \* the script_sig command a test overwrote, to put it back
    tpc,            \* position of the transaction scenario
    \* ---- DER, SEC and Base58Check codecs (ecdsa.py, keys.py) ----
    octets,         \* the bytes (or characters) a decoder is given
    parsed,         \* what the decoder returned, or a failure
    written,        \* what encoding the decoded value returned
    holder,         \* whose address it is: secret key, net, compression
    kpc,            \* position of the codec scenario
    \* ---- target and bits arithmetic (block.py) ----
    cur_bits,       \* the 4 bytes of a header's bits field
    elapsed,        \* the dt calculate_new_bits is given
    cur_target,     \* what bits_to_target returned
    next_bits,      \* what target_to_bits or calculate_new_bits returned
    bpc,            \* position of the arithmetic scenario
    \* ---- TxFetcher.fetch and its disk cache (transaction.py) ----
    api,            \* what the API answers for the id: "honest" (the
                    \* transaction), "wrong" (another one), "missing" (404)
    cache,          \* the file txdb/<id>: whether it exists, and its bytes
    fpc,            \* each caller's position inside fetch
    fraw,           \* each caller's local raw
    fres,           \* what each caller's last fetch returned
    fcalls,         \* the number of fetch calls each caller has made
    \* ---- Script.evaluate on a combined script (transaction.py) ----
    combined,       \* the commands of script_sig + script_pubkey
    preimage,       \* the modified-transaction encoding that was signed
    accepted,       \* what evaluate returned
    spc,            \* position of the evaluation scenario
    \* ---- Point addition (curves.py) ----
    augend,         \* P
    addend,         \* Q
    total,          \* P + Q, and Q + P
    ppc             \* position of the addition scenario

ecdsaVars == <<secret_key, pub_key, message, ephemeral, sig, verdict, epc>>

envVars == <<stream, env_net, envelope, reencoded, envpc>>

nodeVars == <<net, wire, arrived, consumed, sent, npc, want, caller,
              callStart, result, handshaken, ncalls>>

txVars == <<raw, tx, txdb, enc_index, out, vres, saved, tpc>>

keyVars == <<octets, parsed, written, holder, kpc>>

blockVars == <<cur_bits, elapsed, cur_target, next_bits, bpc>>

fetchVars == <<api, cache, fpc, fraw, fres, fcalls>>

scriptVars == <<combined, preimage, accepted, spc>>

pointVars == <<augend, addend, total, ppc>>

vars == <<ecdsaVars, envVars, nodeVars, txVars, keyVars, blockVars,
          fetchVars, scriptVars, pointVars>>

-----------------------------------------------------------------------------
\* Byte-string helpers (Python's bytes / int conversions)

Byte == 0..255

\* The element of a one-element set
Only(S) == CHOOSE x \in S : TRUE

\* Python evaluates the arguments of a call, and the right-hand side of an
\* assignment, once and before the body runs: F applied to the values of its
\* arguments
Call1(F(_), a) == Only({F(x) : x \in {a}})

Call2(F(_, _), a, b) == Only({F(x, y) : x \in {a}, y \in {b}})

Call3(F(_, _, _), a, b, c) ==
    Only({F(x, y, z) : x \in {a}, y \in {b}, z \in {c}})

Call4(F(_, _, _, _), a, b, c, d) ==
    Only({F(x, y, z, w) : x \in {a}, y \in {b}, z \in {c}, w \in {d}})

\* A sequence given by a rule, with its elements evaluated
Tuple(f) == f \o <<>>

RECURSIVE Pow(_, _)
Pow(b, e) == IF e = 0 THEN 1 ELSE b * Pow(b, e - 1)

Min(a, b) == IF a < b THEN a ELSE b

\* bytes[:k]
Take(s, k) == SubSeq(s, 1, Min(k, Len(s)))

\* bytes[k:]
Drop(s, k) == SubSeq(s, Min(k, Len(s)) + 1, Len(s))

\* bytes[::-1]
Reverse(s) == Call1(LAMBDA b: Tuple([i \in 1..Len(b) |-> b[Len(b) + 1 - i]]), s)

\* b'\x00' * k
Zeros(k) == Tuple([i \in 1..k |-> 0])

RECURSIVE FromBytesBig(_)
\* int.from_bytes(b, 'big')
FromBytesBig(b) ==
    IF Len(b) = 0 THEN 0
    ELSE 256 * Call1(FromBytesBig, SubSeq(b, 1, Len(b) - 1)) + b[Len(b)]

\* int.from_bytes(b, 'little')
FromBytesLittle(b) == Call1(FromBytesBig, Reverse(b))

\* i.to_bytes(nbytes, 'little') for 0 <= i < 2^31 (every integer of the model):
\* the bytes above the fourth are zero
ToBytesLittle(i, nbytes) ==
    Call1(LAMBDA v: Tuple([k \in 1..nbytes |->
                             IF k > 4 THEN 0 ELSE (v \div Pow(256, k - 1)) % 256]),
          i)

\* i.to_bytes(nbytes, 'big')
ToBytesBig(i, nbytes) == Reverse(ToBytesLittle(i, nbytes))

RECURSIVE LStripZeros(_)
\* bytes.lstrip(b'\x00')
LStripZeros(b) ==
    IF Len(b) > 0 /\ b[1] = 0 THEN LStripZeros(Tail(b)) ELSE b

RECURSIVE RStripZeros(_)
\* bytes.rstrip(b'\x00')
RStripZeros(b) ==
    IF Len(b) > 0 /\ b[Len(b)] = 0
    THEN RStripZeros(SubSeq(b, 1, Len(b) - 1)) ELSE b

-----------------------------------------------------------------------------
\* Hash primitives (sha256.py, ripemd160.py), scaled

\* One byte folded into the running value h (nothing past the end of b)
MixByte(h, mult, b, i) ==
    IF i > Len(b) THEN h ELSE (h * mult + b[i] + 1) % 16777213

\* Four bytes of b from i on
MixWord(h, mult, b, i) ==
    MixByte(MixByte(MixByte(MixByte(h, mult, b, i), mult, b, i + 1),
                    mult, b, i + 2), mult, b, i + 3)

\* The bytes one compression step consumes (64 in sha256.py)
BlockLen == 16

RECURSIVE MixFrom(_, _, _, _)
\* The blocks of b from byte i on, in order
MixFrom(h, mult, b, i) ==
    IF i > Len(b) THEN h
    ELSE Call4(MixFrom,
               MixWord(MixWord(MixWord(MixWord(h, mult, b, i),
                                       mult, b, i + 4), mult, b, i + 8),
                       mult, b, i + 12),
               mult, b, i + BlockLen)

\* The running value after all of b
Mix(h, mult, b) == MixFrom(h, mult, b, 1)

\* sha256(b): a 4-byte digest
sha256(b) ==
    Call1(LAMBDA x: ToBytesBig((Len(x) + Mix(6955, 127, x) * 127) % 16777213, 4),
          b)

\* sha256(sha256(b))
hash256(b) == sha256(sha256(b))

\* ripemd160(b): a 20-byte digest
ripemd160(b) ==
    Call1(LAMBDA d: d \o d \o d \o d \o d,
          Call1(LAMBDA x: ToBytesBig((Len(x) + Mix(26437, 113, x) * 113)
                                       % 16777213, 4),
                b))

\* ripemd160(sha256(b))
hash160(b) == ripemd160(sha256(b))

-----------------------------------------------------------------------------
\* Curve arithmetic (curves.py, bitcoin.py)

\* The curve and generator: y^2 = x^3 + 7 (mod 79), G of prime order 67.
BITCOIN ==
    [p |-> 79, a |-> 0, b |-> 7, Gx |-> 1, Gy |-> 18, n |-> 67]

\* Point(None, None, None)
INF == [x |-> -1, y |-> -1]

G == [x |-> BITCOIN.Gx, y |-> BITCOIN.Gy]

RECURSIVE EuclidLoop(_, _, _, _)
EuclidLoop(old_r, r, old_s, s) ==
    IF r = 0 THEN <<old_r, old_s>>
    ELSE LET quotient == old_r \div r
         IN  EuclidLoop(r, old_r - quotient * r, s, old_s - quotient * s)

\* (gcd, x) with a*x + b*y = gcd; the t coefficient is never used
extended_euclidean_algorithm(a, b) == EuclidLoop(a, b, 1, 0)

inv(k, m) == extended_euclidean_algorithm(k, m)[2] % m

OnCurve(P) ==
    (P.y * P.y - (P.x * P.x * P.x + BITCOIN.a * P.x + BITCOIN.b)) % BITCOIN.p = 0

\* (variant) the secant slope also when a point is added to itself
PointAdd_Secant(P, Q) ==
    IF P = INF THEN Q
    ELSE IF Q = INF THEN P
    ELSE IF P.x = Q.x /\ P.y # Q.y THEN INF
    ELSE LET m == (P.y - Q.y) * inv(P.x - Q.x, BITCOIN.p)
             mm == m % BITCOIN.p
             rx == (mm * mm - P.x - Q.x) % BITCOIN.p
             ry == (-(mm * (rx - P.x) + P.y)) % BITCOIN.p
         IN  [x |-> rx, y |-> ry]

\* Point.__add__ (the slope is reduced mod p before it is squared: the source
\* squares the unreduced integer, which has the same residue)
PointAdd(P, Q) ==
    IF P = INF THEN Q
    ELSE IF Q = INF THEN P
    ELSE IF P.x = Q.x /\ P.y # Q.y THEN INF
    ELSE LET m == IF P.x = Q.x
                  THEN (3 * P.x * P.x + BITCOIN.a) * inv(2 * P.y, BITCOIN.p)
                  ELSE (P.y - Q.y) * inv(P.x - Q.x, BITCOIN.p)
             mm == m % BITCOIN.p
             rx == (mm * mm - P.x - Q.x) % BITCOIN.p
             ry == (-(mm * (rx - P.x) + P.y)) % BITCOIN.p
         IN  [x |-> rx, y |-> ry]

RECURSIVE MulLoop(_, _, _)
MulLoop(k, res, append) ==
    IF k = 0 THEN res
    ELSE MulLoop(k \div 2,
                 IF k % 2 = 1 THEN PointAdd(res, append) ELSE res,
                 PointAdd(append, append))

\* Point.__rmul__: k * P by double-and-add
PointMul(k, P) == MulLoop(k, INF, P)

\* PublicKey.from_sk
PublicKeyFromSk(sk) == PointMul(sk, G)

-----------------------------------------------------------------------------
\* ECDSA (ecdsa.py)

NoSig == [r |-> -1, s |-> -1]

\* z = int.from_bytes(sha256(sha256(message)), 'big')
MessageInt(m) == Call1(FromBytesBig, hash256(m))

\* The significant bits of a float (53 in Python), scaled with the curve:
\* as for secp256k1, the order n has more bits than a float holds
MantissaBits == 5

RECURSIVE BitLength(_)
\* int.bit_length()
BitLength(x) == IF x = 0 THEN 0 ELSE 1 + BitLength(x \div 2)

\* float(x) for an integer x >= 0: x rounded to MantissaBits significant
\* bits, to nearest, ties to even
Float(x) ==
    IF BitLength(x) <= MantissaBits THEN x
    ELSE LET unit == Pow(2, BitLength(x) - MantissaBits)
             q    == x \div unit
             rem  == x % unit
         IN  IF 2 * rem > unit \/ (2 * rem = unit /\ q % 2 = 1)
             THEN (q + 1) * unit ELSE q * unit

\* s > n / 2: n / 2 is a float, the correctly rounded quotient, and the
\* comparison of the int s with it is exact
AboveHalf(s, n) == 2 * s > Float(n)

\* sign(secret_key, message), with k the scalar gen_secret_key(n) returned
sign(sk, m, k) ==
    LET n  == BITCOIN.n
        z  == MessageInt(m)
        P  == PublicKeyFromSk(k)
        r  == P.x
        s0 == (inv(k, n) * (z + sk * r)) % n
    IN  [r |-> r, s |-> IF AboveHalf(s0, n) THEN n - s0 ELSE s0]

\* verify(public_key, message, sig): "true", "false", or "raise" when one of
\* its assertions fails
verify(public_key, m, sg) ==
    LET n == BITCOIN.n
    IN  IF ~(1 <= sg.r /\ sg.r < n) THEN "raise"
        ELSE IF ~(1 <= sg.s /\ sg.s < n) THEN "raise"
        ELSE LET z  == MessageInt(m)
                 w  == inv(sg.s, n)
                 u1 == (z * w) % n
                 u2 == (sg.r * w) % n
                 P  == PointAdd(PointMul(u1, G), PointMul(u2, public_key))
             IN  IF P.x = sg.r THEN "true" ELSE "false"

\* gen_secret_key(n): any key with 1 <= key < n
SecretKeys == 1..(BITCOIN.n - 1)

\* The messages the scenarios sign
Messages == {<<>>, <<1>>, <<2>>, <<97, 98>>}

EcdsaIdle ==
    /\ secret_key = 0 /\ pub_key = INF /\ message = <<>> /\ ephemeral = 0
    /\ sig = NoSig
    /\ verdict = "none" /\ epc = "off"

\* sk, pk = gen_key_pair()
EcdsaInit ==
    /\ secret_key \in SecretKeys
    /\ pub_key = PublicKeyFromSk(secret_key)
    /\ message \in Messages
    /\ ephemeral = 0
    /\ sig = NoSig
    /\ verdict = "none"
    /\ epc = "start"

\* sig = sign(sk, message)
Sign ==
    /\ epc = "start"
    /\ \E k \in SecretKeys:
         /\ ephemeral' = k
         /\ sig' = sign(secret_key, message, k)
    /\ epc' = "signed"
    /\ UNCHANGED <<secret_key, pub_key, message, verdict>>
    /\ UNCHANGED <<envVars, nodeVars, txVars, keyVars, blockVars, fetchVars,
                   scriptVars, pointVars>>

\* is_legit = verify(pk, message, sig)
Verify ==
    /\ epc = "signed"
    /\ verdict' = verify(pub_key, message, sig)
    /\ epc' = "verified"
    /\ UNCHANGED <<secret_key, pub_key, message, ephemeral, sig>>
    /\ UNCHANGED <<envVars, nodeVars, txVars, keyVars, blockVars, fetchVars,
                   scriptVars, pointVars>>

EcdsaNext == Sign \/ Verify

\* ---- verify on what a peer presents: any key, any (r, s) ----

\* The points handed to verify as a public key: the point at infinity, a
\* point that is not on the curve, and the generator
PresentedKeys == {INF, [x |-> 1, y |-> 1], G}

\* The signatures handed to verify: every r and s from 0 to n
PresentedSigs == [r : 0..BITCOIN.n, s : 0..BITCOIN.n]

\* verify is about to be called on a message, a key and a signature that
\* did not come from sign
PresentedInit ==
    /\ secret_key = 0
    /\ pub_key \in PresentedKeys
    /\ message \in Messages
    /\ ephemeral = 0
    /\ sig \in PresentedSigs
    /\ verdict = "none"
    /\ epc = "signed"

-----------------------------------------------------------------------------
\* NetworkEnvelope (network.py)

MAGICS == [main |-> <<249, 190, 180, 217>>, test |-> <<11, 17, 9, 7>>]

Nets == {"main", "test"}

\* The command tokens, as ASCII bytes
CmdVersion     == <<118, 101, 114, 115, 105, 111, 110>>
CmdVerAck      == <<118, 101, 114, 97, 99, 107>>
CmdPing        == <<112, 105, 110, 103>>
CmdPong        == <<112, 111, 110, 103>>
CmdSendHeaders == <<115, 101, 110, 100, 104, 101, 97, 100, 101, 114, 115>>

\* bytes.strip(b'\x00')
StripZeros(b) == RStripZeros(LStripZeros(b))

\* A failed decode (an assertion of NetworkEnvelope.decode raised)
DecodeFailure == [ok |-> FALSE, command |-> <<>>, payload |-> <<>>]

\* NetworkEnvelope.decode(s, net)
EnvelopeDecode(s, nt) ==
    LET magic          == Take(s, 4)
        command        == StripZeros(Take(Drop(s, 4), 12))
        payload_length == FromBytesLittle(Take(Drop(s, 16), 4))
        checksum       == Take(Drop(s, 20), 4)
        payload        == Take(Drop(s, 24), payload_length)
    IN  IF magic = <<>> THEN DecodeFailure
        ELSE IF magic # MAGICS[nt] THEN DecodeFailure
        ELSE IF checksum # Take(hash256(payload), 4) THEN DecodeFailure
        ELSE [ok |-> TRUE, command |-> command, payload |-> payload]

\* The number of bytes NetworkEnvelope.decode takes off the stream
EnvelopeSize(s) ==
    Min(Len(s), 24 + FromBytesLittle(Take(Drop(s, 16), 4)))

\* NetworkEnvelope.encode(); the assertions hold for every envelope of the model
EnvelopeEncode(command, payload, nt) ==
    MAGICS[nt] \o command \o Zeros(12 - Len(command))
        \o ToBytesLittle(Len(payload), 4)
        \o Take(hash256(payload), 4)
        \o payload

\* ---- the decode scenario: a stream, one decode ----

MaxPayload == 2

PayloadBytes == {0, 255}

RECURSIVE BytesUpTo(_)
\* every byte string over PayloadBytes of length <= k
BytesUpTo(k) ==
    IF k = 0 THEN {<<>>}
    ELSE LET shorter == BytesUpTo(k - 1)
         IN  shorter \cup {Append(b, x): b \in shorter, x \in PayloadBytes}

\* The streams offered to NetworkEnvelope.decode: each header field is right
\* or wrong, the command field starts with its first letter or with a zero
\* byte, the declared payload length and the bytes that follow vary
\* independently, and the checksum is that of the following bytes, that of
\* the bytes decode will read, or neither.
EnvelopeStreams ==
    {<<>>, Take(MAGICS.main, 2), MAGICS.main} \cup
    { magic \o cmd \o Zeros(12 - Len(cmd)) \o ToBytesLittle(declared, 4)
        \o sum \o avail :
        magic \in {MAGICS.main, MAGICS.test, <<249, 190, 180, 216>>},
        cmd \in {CmdVerAck, CmdPing, <<0>> \o CmdPing},
        declared \in 0..MaxPayload,
        avail \in BytesUpTo(MaxPayload),
        sum \in {Take(hash256(a), 4) : a \in BytesUpTo(MaxPayload)}
                \cup {<<0, 0, 0, 0>>} }

EnvIdle ==
    /\ stream = <<>> /\ env_net = "main"
    /\ envelope = DecodeFailure /\ reencoded = <<>> /\ envpc = "off"

EnvInit ==
    /\ stream \in EnvelopeStreams
    /\ env_net \in Nets
    /\ envelope = DecodeFailure
    /\ reencoded = <<>>
    /\ envpc = "start"

\* envelope = NetworkEnvelope.decode(stream, net)
Decode ==
    /\ envpc = "start"
    /\ envelope' = EnvelopeDecode(stream, env_net)
    /\ envpc' = "decoded"
    /\ UNCHANGED <<stream, env_net, reencoded>>
    /\ UNCHANGED <<ecdsaVars, nodeVars, txVars, keyVars, blockVars, fetchVars,
                   scriptVars, pointVars>>

\* envelope.encode() of the envelope decode returned
Encode ==
    /\ envpc = "decoded"
    /\ envelope.ok
    /\ reencoded' = EnvelopeEncode(envelope.command, envelope.payload, env_net)
    /\ envpc' = "encoded"
    /\ UNCHANGED <<stream, env_net, envelope>>
    /\ UNCHANGED <<ecdsaVars, nodeVars, txVars, keyVars, blockVars, fetchVars,
                   scriptVars, pointVars>>

EnvNext == Decode \/ Encode

-----------------------------------------------------------------------------
\* Messages (network.py, transaction.py)

\* encode_varint(i); every integer of the model is below 0x100000000
encode_varint(i) ==
    IF i < 253 THEN <<i>>
    ELSE IF i < 65536 THEN <<253>> \o ToBytesLittle(i, 2)
    ELSE <<254>> \o ToBytesLittle(i, 4)

\* NetAddrStruct().encode(): services 0, ip 0.0.0.0, port 8333
NetAddrEncode ==
    ToBytesLittle(0, 8) \o Zeros(10) \o <<255, 255>> \o Zeros(4)
        \o ToBytesBig(8333, 2)

\* b'/programmingbitcoin:0.1/'
UserAgent ==
    <<47, 112, 114, 111, 103, 114, 97, 109, 109, 105, 110, 103, 98, 105, 116,
      99, 111, 105, 110, 58, 48, 46, 49, 47>>

\* VersionMessage(timestamp=0, nonce=b'\x00'*8, user_agent=...).encode()
VersionEncode ==
    ToBytesLittle(70015, 4) \o ToBytesLittle(0, 8) \o ToBytesLittle(0, 8)
        \o NetAddrEncode \o NetAddrEncode \o Zeros(8)
        \o encode_varint(Len(UserAgent)) \o UserAgent
        \o ToBytesLittle(0, 4) \o <<0>>

\* A message object: its command and, for ping and pong, its nonce
NoMsg == [command |-> <<>>, nonce |-> <<>>]

\* command_to_class[command].decode(env.stream()): VersionMessage.decode and
\* VerAckMessage.decode return a fixed object, PingMessage.decode and
\* PongMessage.decode read 8 bytes of nonce
MessageDecode(command, payload) ==
    [command |-> command,
     nonce   |-> IF command \in {CmdPing, CmdPong} THEN Take(payload, 8)
                 ELSE <<>>]

\* The envelope send(message) builds
Env(command, payload) == [command |-> command, payload |-> payload]

-----------------------------------------------------------------------------
\* SimpleNode (network.py)

MaxFrames == 3

MaxCalls == 1

Nonce == <<1, 2, 3, 4, 5, 6, 7, 8>>

\* What the peer may put on the wire for a node on `nt`: well-formed
\* envelopes (a version whose payload is cut to its first field, which the
\* node never parses; a ping with its 8-byte nonce, and one that carries a
\* ninth byte), an envelope with a wrong checksum and one of the other net
PeerFrames(nt) ==
    { EnvelopeEncode(CmdVersion, ToBytesLittle(70015, 4), nt),
      EnvelopeEncode(CmdVerAck, <<>>, nt),
      EnvelopeEncode(CmdPing, Nonce, nt),
      EnvelopeEncode(CmdPing, Nonce \o <<9>>, nt),
      EnvelopeEncode(CmdPong, Nonce, nt),
      EnvelopeEncode(CmdSendHeaders, <<>>, nt),
      MAGICS[nt] \o CmdVerAck \o Zeros(6) \o Zeros(4) \o <<1, 2, 3, 4>>,
      EnvelopeEncode(CmdVerAck, <<>>, IF nt = "main" THEN "test" ELSE "main") }

\* The message_classes the user calls wait_for with, by their commands
WantChoices == {{CmdPing}, {CmdPong, CmdVerAck}, {CmdVersion}}

\* NetworkEnvelope.decode of every frame the peer may send, per net
Decoded ==
    [nt \in Nets |-> [f \in PeerFrames(nt) |-> EnvelopeDecode(f, nt)]]

\* read(): the envelope decoded from frame f
Read(f) == Decoded[net][f]

\* The envelope of the i-th frame read
ConsumedEnv(i) == Read(consumed[i])

\* (mutant) read() takes the newest frame
NextFrame_Newest(w) == w[Len(w)]

\* The frame read() takes: the oldest on the stream
NextFrame(w) == Head(w)

\* (mutant) the loop is never left on a pong
LoopExits_NotOnPong(command, wanted) ==
    command \in wanted /\ command # CmdPong

\* (variant) the loop is left on a verack, requested or not
LoopExits_OnAnyVerAck(command, wanted) ==
    command \in wanted \cup {CmdVerAck}

\* wait_for's loop test, negated: the loop is left on a requested command
LoopExits(command, wanted) == command \in wanted

\* (mutant) a version is not answered
Respond_PingOnly(command, payload) ==
    IF command = CmdPing THEN <<Env(CmdPong, payload)>> ELSE <<>>

\* (mutant) a pong is answered too
Respond_PongToo(command, payload) ==
    IF command = CmdVersion THEN <<Env(CmdVerAck, <<>>)>>
    ELSE IF command \in {CmdPing, CmdPong} THEN <<Env(CmdPong, payload)>>
    ELSE <<>>

\* wait_for's answers to what it reads: VerAck to Version, Pong to Ping
Respond(command, payload) ==
    IF command = CmdVersion THEN <<Env(CmdVerAck, <<>>)>>
    ELSE IF command = CmdPing THEN <<Env(CmdPong, payload)>>
    ELSE <<>>

NodeIdle ==
    /\ net = "main" /\ wire = <<>> /\ arrived = <<>> /\ consumed = <<>>
    /\ sent = <<>> /\ npc = "off" /\ want = {} /\ caller = "user"
    /\ callStart = 0 /\ result = NoMsg /\ handshaken = FALSE /\ ncalls = 0

\* SimpleNode.__init__: connected, nothing sent or received
NodeInit ==
    /\ net \in Nets
    /\ wire = <<>> /\ arrived = <<>> /\ consumed = <<>> /\ sent = <<>>
    /\ npc = "idle" /\ want = {} /\ caller = "user" /\ callStart = 0
    /\ result = NoMsg /\ handshaken = FALSE /\ ncalls = 0

\* The peer sends one more frame
PeerSend ==
    /\ npc # "crashed"
    /\ Len(arrived) < MaxFrames
    /\ \E f \in PeerFrames(net):
         /\ wire' = Append(wire, f)
         /\ arrived' = Append(arrived, f)
    /\ UNCHANGED <<net, consumed, sent, npc, want, caller, callStart,
                   result, handshaken, ncalls>>
    /\ UNCHANGED <<ecdsaVars, envVars, txVars, keyVars, blockVars, fetchVars,
                   scriptVars, pointVars>>

\* handshake(): send(version), then enter wait_for(VersionMessage)
Handshake ==
    /\ npc = "idle" /\ ~handshaken
    /\ sent' = Append(sent, Env(CmdVersion, VersionEncode))
    /\ want' = {CmdVersion}
    /\ caller' = "hs_version"
    /\ callStart' = Len(consumed)
    /\ npc' = "waiting"
    /\ UNCHANGED <<net, wire, arrived, consumed, result, handshaken, ncalls>>
    /\ UNCHANGED <<ecdsaVars, envVars, txVars, keyVars, blockVars, fetchVars,
                   scriptVars, pointVars>>

\* The user calls wait_for(*message_classes)
WaitFor ==
    /\ npc = "idle"
    /\ ncalls < MaxCalls
    /\ \E w \in WantChoices: want' = w
    /\ caller' = "user"
    /\ callStart' = Len(consumed)
    /\ ncalls' = ncalls + 1
    /\ npc' = "waiting"
    /\ UNCHANGED <<net, wire, arrived, consumed, sent, result, handshaken>>
    /\ UNCHANGED <<ecdsaVars, envVars, txVars, keyVars, blockVars, fetchVars,
                   scriptVars, pointVars>>

\* One pass of wait_for's loop: read an envelope, answer it, test the loop
WaitForIter ==
    /\ npc = "waiting"
    /\ wire # <<>>
    /\ LET f   == NextFrame(wire)
           env == Read(f)
       IN  /\ wire' = Tail(wire)
           /\ consumed' = Append(consumed, f)
           /\ IF ~env.ok
              THEN npc' = "crashed" /\ sent' = sent
              ELSE /\ sent' = sent \o Respond(env.command, env.payload)
                   /\ npc' = IF LoopExits(env.command, want)
                             THEN "returning" ELSE "waiting"
    /\ UNCHANGED <<net, arrived, want, caller, callStart, result,
                   handshaken, ncalls>>
    /\ UNCHANGED <<ecdsaVars, envVars, txVars, keyVars, blockVars, fetchVars,
                   scriptVars, pointVars>>

\* (mutant) handshake() sends its verack and returns once the peer's version
\* is in, without waiting for the peer's verack
Return_NoVerAckWait ==
    /\ npc = "returning"
    /\ IF caller = "user"
       THEN /\ result' = MessageDecode(ConsumedEnv(Len(consumed)).command,
                                       ConsumedEnv(Len(consumed)).payload)
            /\ UNCHANGED <<sent, handshaken>>
       ELSE /\ sent' = Append(sent, Env(CmdVerAck, <<>>))
            /\ handshaken' = TRUE
            /\ UNCHANGED result
    /\ caller' = "user"
    /\ npc' = "idle"
    /\ UNCHANGED <<net, wire, arrived, consumed, want, callStart, ncalls>>
    /\ UNCHANGED <<ecdsaVars, envVars, txVars, keyVars, blockVars, fetchVars,
                   scriptVars, pointVars>>

\* wait_for returns the parsed message; inside handshake() the code goes on
\* to wait_for(VerAckMessage), or to send(VerAckMessage()) and return
Return ==
    /\ npc = "returning"
    /\ LET env == ConsumedEnv(Len(consumed))
       IN  CASE caller = "user" ->
                  /\ result' = MessageDecode(env.command, env.payload)
                  /\ npc' = "idle"
                  /\ UNCHANGED <<sent, want, caller, callStart, handshaken>>
             [] caller = "hs_version" ->
                  /\ want' = {CmdVerAck}
                  /\ caller' = "hs_verack"
                  /\ callStart' = Len(consumed)
                  /\ npc' = "waiting"
                  /\ UNCHANGED <<sent, result, handshaken>>
             [] caller = "hs_verack" ->
                  /\ sent' = Append(sent, Env(CmdVerAck, <<>>))
                  /\ handshaken' = TRUE
                  /\ caller' = "user"
                  /\ npc' = "idle"
                  /\ UNCHANGED <<want, callStart, result>>
    /\ UNCHANGED <<net, wire, arrived, consumed, ncalls>>
    /\ UNCHANGED <<ecdsaVars, envVars, txVars, keyVars, blockVars, fetchVars,
                   scriptVars, pointVars>>

NodeNext == PeerSend \/ Handshake \/ WaitFor \/ WaitForIter \/ Return

-----------------------------------------------------------------------------
\* Script and transaction codec (transaction.py)

\* The width of a transaction id, a sha256 digest (32 in the source)
HashLen == 4

\* A command of a script: an opcode (int) or an element (bytes)
Op(c) == [t |-> "op", v |-> c]

Data(b) == [t |-> "data", v |-> b]

\* decode_int(s, nbytes) and what it leaves on the stream; a stream that
\* ends early yields the integer of the bytes that were there
decode_int(s, nbytes) ==
    [v |-> FromBytesLittle(Take(s, nbytes)), rest |-> Drop(s, nbytes)]

\* decode_varint(s) and what it leaves on the stream
decode_varint(s) ==
    IF s # <<>> /\ s[1] = 253 THEN decode_int(Tail(s), 2)
    ELSE IF s # <<>> /\ s[1] = 254 THEN decode_int(Tail(s), 4)
    ELSE IF s # <<>> /\ s[1] = 255 THEN decode_int(Tail(s), 8)
    ELSE decode_int(s, 1)

\* A decoder that raised
Raised == [ok |-> FALSE, v |-> <<>>, rest |-> <<>>]

RECURSIVE ScriptLoop(_, _, _, _)
\* The loop of Script.decode: count bytes of the body read so far
ScriptLoop(s, length, count, cmds) ==
    IF ~(count < length)
    THEN IF count # length THEN Raised
         ELSE [ok |-> TRUE, v |-> cmds, rest |-> s]
    ELSE IF s = <<>> THEN Raised
    ELSE Call1(LAMBDA current:
           IF 1 <= current /\ current <= 75
           THEN Call4(ScriptLoop, Drop(s, 1 + current), length,
                      count + 1 + current,
                      Append(cmds, Data(Take(Tail(s), current))))
           ELSE IF current = 76
           THEN Call1(LAMBDA data_length:
                  Call4(ScriptLoop, Drop(s, 2 + data_length), length,
                        count + 1 + data_length + 1,
                        Append(cmds, Data(Take(Drop(s, 2), data_length)))),
                  decode_int(Tail(s), 1).v)
           ELSE IF current = 77
           THEN Call1(LAMBDA data_length:
                  Call4(ScriptLoop, Drop(s, 3 + data_length), length,
                        count + 1 + data_length + 2,
                        Append(cmds, Data(Take(Drop(s, 3), data_length)))),
                  decode_int(Tail(s), 2).v)
           ELSE Call4(ScriptLoop, Tail(s), length, count + 1,
                      Append(cmds, Op(current))),
         s[1])

\* Script.decode(s)
ScriptDecode(s) ==
    Call1(LAMBDA length: ScriptLoop(length.rest, length.v, 0, <<>>),
          decode_varint(s))

\* The body of Script.encode's loop for one command
CmdEncode(cmd) ==
    IF cmd.t = "op" THEN [ok |-> TRUE, v |-> <<cmd.v>>]
    ELSE IF Len(cmd.v) < 75
    THEN [ok |-> TRUE, v |-> <<Len(cmd.v)>> \o cmd.v]
    ELSE IF 76 <= Len(cmd.v) /\ Len(cmd.v) <= 255
    THEN [ok |-> TRUE, v |-> <<76, Len(cmd.v)>> \o cmd.v]
    ELSE IF 256 <= Len(cmd.v) /\ Len(cmd.v) <= 520
    THEN [ok |-> TRUE, v |-> <<77>> \o ToBytesLittle(Len(cmd.v), 2) \o cmd.v]
    ELSE [ok |-> FALSE, v |-> <<>>]

\* An encoding that cannot raise
Bytes(b) == [ok |-> TRUE, v |-> b]

\* An encoding that raised
NoBytes == [ok |-> FALSE, v |-> <<>>]

RECURSIVE JoinFrom(_, _, _)
\* b''.join(out) over encodings rs[k..], appended to acc; any of them may
\* have raised
JoinFrom(rs, k, acc) ==
    IF k > Len(rs) THEN Bytes(acc)
    ELSE IF ~rs[k].ok THEN NoBytes
    ELSE Call3(JoinFrom, rs, k + 1, acc \o rs[k].v)

Join(rs) == Call3(JoinFrom, Tuple(rs), 1, <<>>)

\* Script.encode()
ScriptEncode(cmds) ==
    Call1(LAMBDA ret:
            IF ret.ok THEN Bytes(encode_varint(Len(ret.v)) \o ret.v) ELSE ret,
          Join([i \in 1..Len(cmds) |-> CmdEncode(cmds[i])]))

\* TxIn.decode(s)
TxInDecode(s) ==
    Call1(LAMBDA script_sig:
            IF ~script_sig.ok THEN Raised
            ELSE [ok   |-> TRUE,
                  v    |-> [prev_tx    |-> Reverse(Take(s, HashLen)),
                            prev_index |-> decode_int(Drop(s, HashLen), 4).v,
                            script_sig |-> script_sig.v,
                            sequence   |-> decode_int(script_sig.rest, 4).v,
                            witness    |-> <<>>],
                  rest |-> Drop(script_sig.rest, 4)],
          ScriptDecode(Drop(s, HashLen + 4)))

\* TxOut.decode(s)
TxOutDecode(s) ==
    Call1(LAMBDA script_pubkey:
            IF ~script_pubkey.ok THEN Raised
            ELSE [ok   |-> TRUE,
                  v    |-> [amount        |-> decode_int(s, 8).v,
                            script_pubkey |-> script_pubkey.v],
                  rest |-> script_pubkey.rest],
          ScriptDecode(Drop(s, 8)))

RECURSIVE DecodeIns(_, _, _)
\* for _ in range(num_inputs): inputs.append(TxIn.decode(s))
DecodeIns(s, k, acc) ==
    IF k = 0 THEN [ok |-> TRUE, v |-> acc, rest |-> s]
    ELSE Call1(LAMBDA d:
                 IF ~d.ok THEN Raised
                 ELSE Call3(DecodeIns, d.rest, k - 1, Append(acc, d.v)),
               TxInDecode(s))

RECURSIVE DecodeOuts(_, _, _)
\* for _ in range(num_outputs): outputs.append(TxOut.decode(s))
DecodeOuts(s, k, acc) ==
    IF k = 0 THEN [ok |-> TRUE, v |-> acc, rest |-> s]
    ELSE Call1(LAMBDA d:
                 IF ~d.ok THEN Raised
                 ELSE Call3(DecodeOuts, d.rest, k - 1, Append(acc, d.v)),
               TxOutDecode(s))

RECURSIVE DecodeItems(_, _, _)
\* The witness items of one input: an item of length 0 is kept as the int 0
DecodeItems(s, k, acc) ==
    IF k = 0 THEN [v |-> acc, rest |-> s]
    ELSE Call1(LAMBDA item_len:
                 IF item_len.v = 0
                 THEN Call3(DecodeItems, item_len.rest, k - 1,
                            Append(acc, Op(0)))
                 ELSE Call3(DecodeItems, Drop(item_len.rest, item_len.v),
                            k - 1,
                            Append(acc, Data(Take(item_len.rest, item_len.v)))),
               decode_varint(s))

RECURSIVE DecodeWitness(_, _, _)
\* for tx_in in inputs: ... tx_in.witness = items
DecodeWitness(s, inputs, k) ==
    IF k > Len(inputs) THEN [v |-> inputs, rest |-> s]
    ELSE Call1(LAMBDA num_items:
           Call1(LAMBDA items:
                   Call3(DecodeWitness, items.rest,
                         [inputs EXCEPT ![k].witness = items.v], k + 1),
                 DecodeItems(num_items.rest, num_items.v, <<>>)),
           decode_varint(s))

\* Tx.decode, from the outputs on: inputs are the decoded inputs and what
\* they left on the stream
TxDecodeOutputs(version, segwit, inputs) ==
    Call1(LAMBDA num_outputs:
      Call1(LAMBDA outputs:
        IF ~outputs.ok THEN Raised
        ELSE Call1(LAMBDA witnessed:
               [ok   |-> TRUE,
                v    |-> [version  |-> version,
                          tx_ins   |-> witnessed.v,
                          tx_outs  |-> outputs.v,
                          locktime |-> decode_int(witnessed.rest, 4).v,
                          segwit   |-> segwit],
                rest |-> Drop(witnessed.rest, 4)],
             IF segwit THEN DecodeWitness(outputs.rest, inputs.v, 1)
             ELSE [v |-> inputs.v, rest |-> outputs.rest]),
        DecodeOuts(num_outputs.rest, num_outputs.v, <<>>)),
      decode_varint(inputs.rest))

\* Tx.decode(s)
TxDecode(s) ==
    Call1(LAMBDA first:
      Call1(LAMBDA segwit:
        IF segwit /\ Take(first.rest, 1) # <<1>> THEN Raised
        ELSE Call1(LAMBDA num_inputs:
               Call1(LAMBDA inputs:
                       IF ~inputs.ok THEN Raised
                       ELSE TxDecodeOutputs(decode_int(s, 4).v, segwit, inputs),
                     DecodeIns(num_inputs.rest, num_inputs.v, <<>>)),
               IF segwit THEN decode_varint(Drop(first.rest, 1)) ELSE first),
        first.v = 0),
      decode_varint(Drop(s, 4)))

\* TxOut.encode()
TxOutEncode(tx_out) ==
    Join(<<Bytes(ToBytesLittle(tx_out.amount, 8)),
           ScriptEncode(tx_out.script_pubkey)>>)

\* One witness item as Tx.encode writes it: encode_varint(item) for an int,
\* the length and the bytes for an element
ItemEncode(item) ==
    IF item.t = "op" THEN encode_varint(item.v)
    ELSE encode_varint(Len(item.v)) \o item.v

\* The witness of one input as Tx.encode writes it
WitnessEncode(witness) ==
    Join(<<Bytes(encode_varint(Len(witness)))>>
         \o [k \in 1..Len(witness) |-> Bytes(ItemEncode(witness[k]))])

\* TxIn.encode around the script bytes chosen by script_override
TxInEncodeWith(tx_in, script) ==
    Join(<<Bytes(Reverse(tx_in.prev_tx)),
           Bytes(ToBytesLittle(tx_in.prev_index, 4)),
           script,
           Bytes(ToBytesLittle(tx_in.sequence, 4))>>)

\* Tx.encode around the encoded inputs: with the segwit marker and witnesses
\* when with_witness, with the SIGHASH_ALL suffix when sighash
TxAssemble(t, with_witness, ins, sighash) ==
    Join(<<Bytes(ToBytesLittle(t.version, 4)),
           Bytes(IF with_witness THEN <<0, 1>> ELSE <<>>),
           Bytes(encode_varint(Len(t.tx_ins))),
           Join(ins),
           Bytes(encode_varint(Len(t.tx_outs))),
           Join([k \in 1..Len(t.tx_outs) |-> TxOutEncode(t.tx_outs[k])]),
           IF with_witness
           THEN Join([k \in 1..Len(t.tx_ins) |->
                        WitnessEncode(t.tx_ins[k].witness)])
           ELSE Bytes(<<>>),
           Bytes(ToBytesLittle(t.locktime, 4)),
           Bytes(IF sighash THEN ToBytesLittle(1, 4) ELSE <<>>)>>)

\* Tx.encode(force_legacy), sig_index = -1
TxEncode(t, force_legacy) ==
    TxAssemble(t, t.segwit /\ ~force_legacy,
               [k \in 1..Len(t.tx_ins) |->
                  TxInEncodeWith(t.tx_ins[k],
                                 ScriptEncode(t.tx_ins[k].script_sig))],
               FALSE)

\* Tx.id(), as bytes
TxId(t) ==
    Call1(LAMBDA enc: IF enc.ok THEN Bytes(Reverse(hash256(enc.v))) ELSE enc,
          TxEncode(t, TRUE))

\* A fetch that raised
NotFetched == [ok |-> FALSE, v |-> <<>>]

\* TxFetcher.fetch(tx_id, net): the raw bytes stored for tx_id, decoded,
\* and the assertion that their id is tx_id
Fetch(db, tx_id) ==
    IF tx_id \notin DOMAIN db THEN NotFetched
    ELSE Call1(LAMBDA d:
                 IF ~d.ok THEN NotFetched
                 ELSE IF TxId(d.v) # Bytes(tx_id) THEN NotFetched
                 ELSE [ok |-> TRUE, v |-> d.v],
               TxDecode(db[tx_id]))

\* tx.tx_outs[self.prev_index] of the fetched previous transaction
PrevOut(db, tx_in) ==
    Call1(LAMBDA f:
            IF ~f.ok THEN NotFetched
            ELSE IF ~(tx_in.prev_index < Len(f.v.tx_outs)) THEN NotFetched
            ELSE [ok |-> TRUE, v |-> f.v.tx_outs[tx_in.prev_index + 1]],
          Fetch(db, tx_in.prev_tx))

\* (mutant) the input being signed keeps its own script_sig
OverrideScript_Own(db, tx_in) == ScriptEncode(tx_in.script_sig)

\* The script TxIn.encode(script_override=True) writes: the script_pubkey of
\* the output being spent
OverrideScript(db, tx_in) ==
    Call1(LAMBDA po: IF po.ok THEN ScriptEncode(po.v.script_pubkey)
                     ELSE NoBytes,
          PrevOut(db, tx_in))

\* Tx.encode(sig_index=i): input i carries the script_pubkey it spends, the
\* others an empty script, and SIGHASH_ALL is appended
TxSigEncode(t, sig_index, db) ==
    TxAssemble(t, t.segwit,
               [k \in 1..Len(t.tx_ins) |->
                  TxInEncodeWith(t.tx_ins[k],
                    IF sig_index = k - 1 THEN OverrideScript(db, t.tx_ins[k])
                    ELSE ScriptEncode(<<>>))],
               TRUE)

-----------------------------------------------------------------------------
\* DER and SEC codecs (ecdsa.py, keys.py) and Script.evaluate

\* The width of a curve coordinate in the SEC format (32 in the source)
CoordLen == 1

\* dern(n) in Signature.encode; nb[0] raises on n = 0
dern(n) ==
    Call1(LAMBDA nb:
            IF nb = <<>> THEN NoBytes
            ELSE Bytes((IF nb[1] >= 128 THEN <<0>> ELSE <<>>) \o nb),
          LStripZeros(ToBytesBig(n, 4)))

\* Signature.encode()
SignatureEncode(sg) ==
    Call1(LAMBDA content:
            IF content.ok THEN Bytes(<<48, Len(content.v)>> \o content.v)
            ELSE NoBytes,
          Call2(LAMBDA rb, sb:
                  IF rb.ok /\ sb.ok
                  THEN Bytes(<<2, Len(rb.v)>> \o rb.v \o <<2, Len(sb.v)>> \o sb.v)
                  ELSE NoBytes,
                dern(sg.r), dern(sg.s)))

\* A signature that could not be decoded
BadSig == [ok |-> FALSE, v |-> NoSig]

\* Signature.decode(der); s.read(1)[0] raises at the end of the stream
SignatureDecode(der) ==
    IF Len(der) < 4 THEN BadSig
    ELSE IF der[1] # 48 \/ der[2] # Len(der) - 2 \/ der[3] # 2 THEN BadSig
    ELSE Call1(LAMBDA afterR:
                 IF Len(afterR) < 2 \/ afterR[1] # 2 THEN BadSig
                 ELSE IF Len(der) # 6 + der[4] + afterR[2] THEN BadSig
                 ELSE [ok |-> TRUE,
                       v  |-> [r |-> Call1(FromBytesBig,
                                           Take(Drop(der, 4), der[4])),
                               s |-> Call1(FromBytesBig,
                                           Take(Drop(afterR, 2), afterR[2]))]],
               Drop(der, 4 + der[4]))

RECURSIVE PowMod(_, _, _)
\* pow(b, e, m)
PowMod(b, e, m) ==
    IF e = 0 THEN 1 % m ELSE ((b % m) * Call3(PowMod, b, e - 1, m)) % m

\* PublicKey.encode(compressed)
PublicKeyEncode(P, compressed) ==
    IF compressed
    THEN <<IF P.y % 2 = 0 THEN 2 ELSE 3>> \o ToBytesBig(P.x, CoordLen)
    ELSE <<4>> \o ToBytesBig(P.x, CoordLen) \o ToBytesBig(P.y, CoordLen)

\* The y the compressed branch of PublicKey.decode computes for x
SolveY(x, is_even) ==
    Call1(LAMBDA y: IF (y % 2 = 0) = is_even THEN y ELSE BITCOIN.p - y,
          Call3(PowMod, (Call3(PowMod, x, 3, BITCOIN.p) + 7) % BITCOIN.p,
                (BITCOIN.p + 1) \div 4, BITCOIN.p))

\* PublicKey.decode(b): no check that the point is on the curve
PublicKeyDecode(b) ==
    IF b = <<>> THEN [ok |-> FALSE, v |-> INF]
    ELSE IF b[1] = 4
    THEN [ok |-> TRUE,
          v  |-> [x |-> Call1(FromBytesBig,
                              SubSeq(b, 2, Min(1 + CoordLen, Len(b)))),
                  y |-> Call1(FromBytesBig,
                              SubSeq(b, 2 + CoordLen,
                                     Min(1 + 2 * CoordLen, Len(b))))]]
    ELSE IF b[1] \notin {2, 3} THEN [ok |-> FALSE, v |-> INF]
    ELSE Call1(LAMBDA x: [ok |-> TRUE,
                          v  |-> [x |-> x, y |-> SolveY(x, b[1] = 2)]],
               Call1(FromBytesBig, Tail(b)))

OP_DUP == 118

OP_HASH160 == 169

OP_EQUALVERIFY == 136

OP_CHECKSIG == 172

\* (variant) the sighash type is not looked at
CheckSig_AnySighash(sigblob, pubkey, mod_tx_enc) ==
    IF sigblob = <<>> THEN "raise"
    ELSE Call2(LAMBDA sg, pk:
                 IF ~sg.ok \/ ~pk.ok THEN "raise"
                 ELSE Call3(verify, pk.v, mod_tx_enc, sg.v),
               SignatureDecode(Take(sigblob, Len(sigblob) - 1)),
               PublicKeyDecode(pubkey))

\* The end of Script.evaluate: the signature and key are decoded and checked
CheckSig(sigblob, pubkey, mod_tx_enc) ==
    IF sigblob = <<>> THEN "raise"
    ELSE IF sigblob[Len(sigblob)] # 1 THEN "raise"
    ELSE Call2(LAMBDA sg, pk:
                 IF ~sg.ok \/ ~pk.ok THEN "raise"
                 ELSE Call3(verify, pk.v, mod_tx_enc, sg.v),
               SignatureDecode(Take(sigblob, Len(sigblob) - 1)),
               PublicKeyDecode(pubkey))

\* Script.evaluate(mod_tx_enc): "true", "false", or "raise" when an assertion
\* or a decoder fails
evaluate(cmds, mod_tx_enc) ==
    IF Len(cmds) # 7 THEN "raise"
    ELSE IF ~(/\ cmds[1].t = "data" /\ cmds[2].t = "data"
              /\ cmds[3] = Op(OP_DUP) /\ cmds[4] = Op(OP_HASH160)
              /\ cmds[5].t = "data"
              /\ cmds[6] = Op(OP_EQUALVERIFY) /\ cmds[7] = Op(OP_CHECKSIG))
    THEN "raise"
    ELSE IF cmds[5].v # hash160(cmds[2].v) THEN "false"
    ELSE CheckSig(cmds[1].v, cmds[2].v, mod_tx_enc)

RECURSIVE Sum(_)
Sum(xs) == IF xs = <<>> THEN 0 ELSE Head(xs) + Call1(Sum, Tail(xs))

\* Tx.fee(): the amounts spent minus the amounts created; raises when a
\* previous output cannot be fetched
fee(t, db) ==
    Call1(LAMBDA prev:
            IF \E k \in 1..Len(prev): ~prev[k].ok THEN [ok |-> FALSE, v |-> 0]
            ELSE [ok |-> TRUE,
                  v  |-> Call1(Sum, Tuple([k \in 1..Len(prev) |->
                                             prev[k].v.amount]))
                         - Call1(Sum, Tuple([k \in 1..Len(t.tx_outs) |->
                                               t.tx_outs[k].amount]))],
          Tuple([k \in 1..Len(t.tx_ins) |-> PrevOut(db, t.tx_ins[k])]))

\* What validate() computes for input i (0-based): the sighash preimage, the
\* combined script and its evaluation
EvaluateInput(t, i, db) ==
    Call2(LAMBDA mod_tx_enc, po:
            IF ~mod_tx_enc.ok \/ ~po.ok THEN "raise"
            ELSE Call2(evaluate,
                       t.tx_ins[i + 1].script_sig \o po.v.script_pubkey,
                       mod_tx_enc.v),
          TxSigEncode(t, i, db), PrevOut(db, t.tx_ins[i + 1]))

RECURSIVE ValidateLoop(_, _, _)
\* for i, tx in enumerate(self.tx_ins): ... if not valid: return False
ValidateLoop(t, i, db) ==
    IF i = Len(t.tx_ins) THEN [ret |-> "true", evaluated |-> i]
    ELSE Call1(LAMBDA valid:
                 IF valid = "raise" THEN [ret |-> "raise", evaluated |-> i + 1]
                 ELSE IF valid = "false"
                 THEN [ret |-> "false", evaluated |-> i + 1]
                 ELSE Call3(ValidateLoop, t, i + 1, db),
               EvaluateInput(t, i, db))

\* (mutant) a zero fee is rejected too
MintsCoins_OrZero(f) == f <= 0

\* if self.fee() < 0
MintsCoins(f) == f < 0

\* Tx.validate(): what it returns ("true", "false", or "raise") and the
\* number of scripts it evaluated
validate(t, db) ==
    IF t.segwit THEN [ret |-> "raise", evaluated |-> 0]
    ELSE Call1(LAMBDA f:
                 IF ~f.ok THEN [ret |-> "raise", evaluated |-> 0]
                 ELSE IF MintsCoins(f.v) THEN [ret |-> "false", evaluated |-> 0]
                 ELSE ValidateLoop(t, 0, db),
               fee(t, db))

-----------------------------------------------------------------------------
\* Transactions on the wire and in a wallet (transaction.py, tests/test_tx.py)

MaxInputs == 2

\* k bytes of element data
Fill(k) == [i \in 1..k |-> (i % 250) + 1]

\* Script bodies: empty; opcodes only; direct pushes of 2, 74 and 75 bytes;
\* PUSHDATA1 of 76 bytes and of 2 bytes; PUSHDATA2 of 1 byte; byte 78
\* followed by a direct push
ScriptBodies ==
    { <<>>,
      <<OP_DUP, OP_HASH160>>,
      <<2, 5, 6>>,
      <<74>> \o Fill(74),
      <<75>> \o Fill(75),
      <<76, 76>> \o Fill(76),
      <<76, 2, 5, 6>>,
      <<77, 1, 0, 9>>,
      <<78, 1, 7>> }

\* A count as a one-byte varint and as a three-byte varint
CountForms(k) == { <<k>>, <<253, k, 0>> }

\* The bytes of one input around a script body
RawIn(body) ==
    <<1, 2, 3, 4>> \o ToBytesLittle(1, 4) \o encode_varint(Len(body)) \o body
        \o <<254, 255, 255, 127>>

\* The bytes of one output: 5 satoshi to an empty script
RawOut == ToBytesLittle(5, 8) \o <<0>>

\* One input's witness: two items, the first of length zero
RawWitness == <<2, 0, 2, 8, 9>>

RECURSIVE Repeat(_, _)
Repeat(b, k) == IF k = 0 THEN <<>> ELSE b \o Repeat(b, k - 1)

\* Byte strings handed to Tx.decode: legacy and segwit, complete, cut one
\* byte short, and followed by one more byte
TxStreamsOf(nin) ==
    { ToBytesLittle(1, 4) \o (IF segwit THEN <<0, 1>> ELSE <<>>)
        \o count \o Repeat(RawIn(body), nin) \o <<1>> \o RawOut
        \o (IF segwit THEN Repeat(RawWitness, nin) ELSE <<>>)
        \o tail :
        count \in CountForms(nin),
        segwit \in BOOLEAN, body \in ScriptBodies,
        tail \in {ToBytesLittle(0, 4), <<0, 0, 0>>, <<0, 0, 0, 0, 0>>} }

TxStreams == UNION {TxStreamsOf(nin) : nin \in 1..MaxInputs}

\* The secret key that owns the outputs being spent, and another one
Owner == 5

Other == 9

\* The scalars gen_secret_key hands to sign
Ephemerals == {3, 7}

\* The locking script of a pay-to-pubkey-hash output
P2PKH(pkb_hash) ==
    <<Op(OP_DUP), Op(OP_HASH160), Data(pkb_hash), Op(OP_EQUALVERIFY),
      Op(OP_CHECKSIG)>>

\* PublicKey.from_sk(sk).encode(compressed=True)
PkBytes(sk) == Call1(LAMBDA P: PublicKeyEncode(P, TRUE), PublicKeyFromSk(sk))

\* PublicKey.from_sk(sk).encode(compressed=True, hash160=True)
PkbHash(sk) == hash160(PkBytes(sk))

TxIn(prev_tx, prev_index, script_sig) ==
    [prev_tx |-> prev_tx, prev_index |-> prev_index, script_sig |-> script_sig,
     sequence |-> 2147483646, witness |-> <<>>]

\* The transaction whose outputs are spent: 50 satoshi each to Owner
Funding ==
    [version  |-> 1,
     tx_ins   |-> <<TxIn(Zeros(HashLen), 0, <<>>)>>,
     tx_outs  |-> Tuple([k \in 1..MaxInputs |->
                           [amount        |-> 50,
                            script_pubkey |-> P2PKH(PkbHash(Owner))]]),
     locktime |-> 0,
     segwit   |-> FALSE]

\* Funding.id()
FundingId == TxId(Funding).v

\* TxFetcher's store: the funding transaction under its id
FundingDb == FundingId :> TxEncode(Funding, FALSE).v

\* The spending transaction before it is signed
Unsigned(nin, amount) ==
    [version  |-> 1,
     tx_ins   |-> Tuple([k \in 1..nin |-> TxIn(FundingId, k - 1, <<>>)]),
     tx_outs  |-> <<[amount |-> amount, script_pubkey |-> P2PKH(PkbHash(Other))]>>,
     locktime |-> 0,
     segwit   |-> FALSE]

\* How a wallet fills the script_sig of one input
InputKinds == {"signed", "wrong_signer", "wrong_key", "sighash_none", "empty"}

\* sig.encode() + sighash byte, of the signature by sk with ephemeral k
SigBlob(sk, m, k, sighash) ==
    Call1(LAMBDA der: IF der.ok THEN der.v \o <<sighash>> ELSE <<>>,
          Call1(SignatureEncode, Call3(sign, sk, m, k)))

\* script_sig = Script([sig_bytes_and_type, pk_bytes]), test_tx.py
ScriptSig(kind, m, k) ==
    CASE kind = "signed" ->
           <<Data(SigBlob(Owner, m, k, 1)),
             Data(PkBytes(Owner))>>
      [] kind = "wrong_signer" ->
           <<Data(SigBlob(Other, m, k, 1)),
             Data(PkBytes(Owner))>>
      [] kind = "wrong_key" ->
           <<Data(SigBlob(Other, m, k, 1)),
             Data(PkBytes(Other))>>
      [] kind = "sighash_none" ->
           <<Data(SigBlob(Owner, m, k, 2)),
             Data(PkBytes(Owner))>>
      [] kind = "empty" -> <<>>

\* The spending transaction with each input's script_sig filled in
Spend(nin, amount, kinds, k) ==
    Call1(LAMBDA u:
            [u EXCEPT !.tx_ins =
               Tuple([i \in 1..nin |->
                 [u.tx_ins[i] EXCEPT !.script_sig =
                    Call3(ScriptSig, kinds[i],
                          TxSigEncode(u, i - 1, FundingDb).v, k)]])],
          Unsigned(nin, amount))

\* The spending transactions of nin inputs on the wire: fee 10, 0 and -1
SpendStreamsOf(nin) ==
    { Call2(TxEncode, Spend(nin, 50 * nin + d, kinds, k), FALSE).v :
        d \in {-10, 0, 1}, k \in Ephemerals, kinds \in [1..nin -> InputKinds] }

\* The spending transactions of up to most inputs
SpendStreams(most) == UNION {SpendStreamsOf(nin) : nin \in 1..most}

\* No command has been overwritten
NothingSaved == [input |-> 0, cmd |-> 0, bytes |-> <<>>]

\* The values a test writes over a byte b: b + 1, the complement, and zero
FudgedBytes(b) == {(b + 1) % 256, 255 - b, 0} \ {b}

TxIdle ==
    /\ raw = <<>> /\ tx = Raised /\ txdb = <<>> /\ enc_index = -1
    /\ out = Bytes(<<>>)
    /\ vres = [ret |-> "none", evaluated |-> 0] /\ saved = NothingSaved
    /\ tpc = "off"

\* A byte string arrives; the fetcher knows the funding transaction
TxInit ==
    /\ raw \in TxStreams \cup SpendStreams(MaxInputs)
    /\ tx = Raised
    /\ txdb = FundingDb
    /\ enc_index = -1
    /\ out = Bytes(<<>>)
    /\ vres = [ret |-> "none", evaluated |-> 0]
    /\ saved = NothingSaved
    /\ tpc = "start"

\* tx = Tx.decode(BytesIO(raw))
DecodeTx ==
    /\ tpc = "start"
    /\ tx' = TxDecode(raw)
    /\ tpc' = IF tx'.ok THEN "decoded" ELSE "rejected"
    /\ UNCHANGED <<raw, txdb, enc_index, out, vres, saved>>
    /\ UNCHANGED <<ecdsaVars, envVars, nodeVars, keyVars, blockVars, fetchVars,
                   scriptVars, pointVars>>

\* tx.encode()
EncodeTx ==
    /\ tpc = "decoded"
    /\ out' = TxEncode(tx.v, FALSE)
    /\ tpc' = "encoded"
    /\ UNCHANGED <<raw, tx, txdb, enc_index, vres, saved>>
    /\ UNCHANGED <<ecdsaVars, envVars, nodeVars, keyVars, blockVars, fetchVars,
                   scriptVars, pointVars>>

\* tx.encode(sig_index=i) for an input i of tx
SigEncodeTx ==
    /\ tpc = "decoded"
    /\ \E i \in 0..(Len(tx.v.tx_ins) - 1):
         /\ enc_index' = i
         /\ out' = TxSigEncode(tx.v, i, txdb)
    /\ tpc' = "sig_encoded"
    /\ UNCHANGED <<raw, tx, txdb, vres, saved>>
    /\ UNCHANGED <<ecdsaVars, envVars, nodeVars, keyVars, blockVars, fetchVars,
                   scriptVars, pointVars>>

\* tx.validate()
ValidateTx ==
    /\ tpc = "decoded"
    /\ vres' = validate(tx.v, txdb)
    /\ tpc' = "validated"
    /\ UNCHANGED <<raw, tx, txdb, enc_index, out, saved>>
    /\ UNCHANGED <<ecdsaVars, envVars, nodeVars, keyVars, blockVars, fetchVars,
                   scriptVars, pointVars>>

\* tx.tx_ins[i].script_sig.cmds[c] = sigb2 (or pkb2); tx.validate(): one byte
\* of the DER signature (c = 1, the sighash byte left alone) or of the SEC
\* public key (c = 2) of a transaction that validated is overwritten
FudgeTx ==
    /\ tpc = "validated"
    /\ vres.ret = "true"
    /\ \E i \in 1..Len(tx.v.tx_ins), c \in {1, 2}:
         \E j \in 1..(Len(tx.v.tx_ins[i].script_sig[c].v) - (2 - c)):
           \E b \in FudgedBytes(tx.v.tx_ins[i].script_sig[c].v[j]):
             /\ saved' = [input |-> i, cmd |-> c,
                          bytes |-> tx.v.tx_ins[i].script_sig[c].v]
             /\ tx' = [tx EXCEPT !.v.tx_ins[i].script_sig[c].v[j] = b]
             /\ vres' = validate(tx'.v, txdb)
    /\ tpc' = "fudged"
    /\ UNCHANGED <<raw, txdb, enc_index, out>>
    /\ UNCHANGED <<ecdsaVars, envVars, nodeVars, keyVars, blockVars, fetchVars,
                   scriptVars, pointVars>>

\* tx.tx_ins[i].script_sig.cmds[c] = sigb (revert to original); tx.validate()
RevertTx ==
    /\ tpc = "fudged"
    /\ tx' = [tx EXCEPT !.v.tx_ins[saved.input].script_sig[saved.cmd].v =
                          saved.bytes]
    /\ vres' = validate(tx'.v, txdb)
    /\ saved' = NothingSaved
    /\ tpc' = "reverted"
    /\ UNCHANGED <<raw, txdb, enc_index, out>>
    /\ UNCHANGED <<ecdsaVars, envVars, nodeVars, keyVars, blockVars, fetchVars,
                   scriptVars, pointVars>>

TxNext ==
    DecodeTx \/ EncodeTx \/ SigEncodeTx \/ ValidateTx \/ FudgeTx \/ RevertTx

-----------------------------------------------------------------------------
\* Base58Check (keys.py). The 25-byte integers are kept as big-endian byte
\* strings and divided and multiplied digit by digit.

alphabet ==
    <<"1", "2", "3", "4", "5", "6", "7", "8", "9", "A", "B", "C",
      "D", "E", "F", "G", "H", "J", "K", "L", "M", "N", "P", "Q",
      "R", "S", "T", "U", "V", "W", "X", "Y", "Z", "a", "b", "c",
      "d", "e", "f", "g", "h", "i", "j", "k", "m", "n", "o", "p",
      "q", "r", "s", "t", "u", "v", "w", "x", "y", "z">>

\* alphabet_inv[c]; the lookup raises KeyError for any other character
alphabet_inv(c) == Only({i \in 0..57 : alphabet[i + 1] = c})

InAlphabet(c) == \E i \in 1..58 : alphabet[i] = c

\* The length of a byte address: version, pkb_hash, checksum
AddressLen == 1 + 5 * HashLen + 4

\* The loops below are evaluated by halves (the first half of the steps,
\* then the second half on its result), which computes what running the
\* steps one after the other computes.

\* One step of the long division by 58: the next byte of the dividend b
\* is brought down to the remainder st.r
DivStep(b, i, st) ==
    [q |-> st.q \o <<(st.r * 256 + b[i]) \div 58>>,
     r |-> (st.r * 256 + b[i]) % 58]

RECURSIVE DivRange(_, _, _, _)
\* The division steps for the bytes lo to hi of b
DivRange(b, lo, hi, st) ==
    IF lo > hi THEN st
    ELSE IF lo = hi THEN DivStep(b, lo, st)
    ELSE Call4(DivRange, b, (lo + hi) \div 2 + 1, hi,
               DivRange(b, lo, (lo + hi) \div 2, st))

\* divmod(n, 58)
DivMod58(b) == Call4(DivRange, b, 1, Len(b), [q |-> <<>>, r |-> 0])

IsZero(b) == \A i \in 1..Len(b) : b[i] = 0

\* One pass of `while n: n, i = divmod(n, 58); chars.append(alphabet[i])`
\* (st.n is n; the characters are kept most significant first, the source
\* reverses them at the end); nothing happens once n is 0
EncodeStep(st) ==
    IF IsZero(st.n) THEN st
    ELSE Call1(LAMBDA d: [n     |-> d.q,
                          chars |-> <<alphabet[d.r + 1]>> \o st.chars],
               DivMod58(st.n))

RECURSIVE EncodeLoop(_, _)
\* count passes of the loop
EncodeLoop(st, count) ==
    IF count = 0 THEN st
    ELSE IF count = 1 THEN EncodeStep(st)
    ELSE Call2(EncodeLoop, EncodeLoop(st, count \div 2),
               count - count \div 2)

\* len(b) - len(b.lstrip(b'\x00'))
LeadingZeros(b) == Len(b) - Len(LStripZeros(b))

\* b58encode(b); an integer of Len(b) bytes has fewer than 2 * Len(b)
\* digits in base 58
b58encode(b) ==
    IF Len(b) # AddressLen THEN NoBytes
    ELSE Bytes(Tuple([k \in 1..LeadingZeros(b) |-> alphabet[1]])
               \o Call2(EncodeLoop, [n |-> b, chars |-> <<>>],
                        2 * Len(b)).chars)

\* One step of 58 * n + carry: byte i of st.n is multiplied
MulStep(i, st) ==
    [n     |-> [st.n EXCEPT ![i] = (st.n[i] * 58 + st.carry) % 256],
     carry |-> (st.n[i] * 58 + st.carry) \div 256]

RECURSIVE MulRange(_, _, _)
\* The multiplication steps for the bytes hi down to lo
MulRange(lo, hi, st) ==
    IF lo > hi THEN st
    ELSE IF lo = hi THEN MulStep(lo, st)
    ELSE Call3(MulRange, lo, (lo + hi) \div 2,
               MulRange((lo + hi) \div 2 + 1, hi, st))

\* 58 * n + digit for an integer n of 25 bytes, with the digit above them
\* in front
MulAdd58(n, digit) ==
    Call1(LAMBDA st: <<st.carry>> \o st.n,
          Call3(MulRange, 1, Len(n), [n |-> n, carry |-> digit]))

\* One more character of res on top of the integer m; m[1] is the digit
\* above the 25 bytes, not 0 once the sum needs more than 25 bytes
DecodeStep(c, m) ==
    IF m[1] # 0 THEN m ELSE MulAdd58(Tail(m), alphabet_inv(c))

RECURSIVE DecodeRange(_, _, _, _)
\* sum(alphabet_inv[c] * 58**i for i, c in enumerate(reversed(res))) for
\* the characters lo to hi of res, on top of m
DecodeRange(res, lo, hi, m) ==
    IF lo > hi THEN m
    ELSE IF lo = hi THEN DecodeStep(res[lo], m)
    ELSE Call4(DecodeRange, res, (lo + hi) \div 2 + 1, hi,
               DecodeRange(res, lo, (lo + hi) \div 2, m))

\* b58decode(res): KeyError for a character outside the alphabet,
\* OverflowError from to_bytes(25) for an integer of more than 25 bytes
b58decode(res) ==
    IF \E k \in 1..Len(res) : ~InAlphabet(res[k]) THEN NoBytes
    ELSE Call1(LAMBDA m: IF m[1] = 0 THEN Bytes(Tail(m)) ELSE NoBytes,
               Call4(DecodeRange, res, 1, Len(res), Zeros(AddressLen + 1)))

\* version = {'main': b'\x00', 'test': b'\x6f'}
version(n) == IF n = "main" THEN <<0>> ELSE <<111>>

\* PublicKey.address(net, compressed)
address(P, n, compressed) ==
    Call1(LAMBDA ver_pkb_hash:
            b58encode(ver_pkb_hash \o Take(hash256(ver_pkb_hash), 4)),
          version(n) \o hash160(PublicKeyEncode(P, compressed)))

\* (mutant) the version byte is not stripped
StripVersion_Kept(byte_address) ==
    SubSeq(byte_address, 1, Len(byte_address) - 4)

\* byte_address[1:-4]
StripVersion(byte_address) ==
    SubSeq(byte_address, 2, Len(byte_address) - 4)

\* address_to_pkb_hash(b58check_address)
address_to_pkb_hash(b58check_address) ==
    Call1(LAMBDA byte_address:
            IF ~byte_address.ok THEN NoBytes
            ELSE IF Drop(byte_address.v, AddressLen - 4)
                    # Take(hash256(Take(byte_address.v, AddressLen - 4)), 4)
            THEN NoBytes
            ELSE Bytes(StripVersion(byte_address.v)),
          b58decode(b58check_address))

-----------------------------------------------------------------------------
\* Target and bits arithmetic (block.py). Targets are integers of up to 258
\* bytes, kept as big-endian byte strings without leading zero bytes and
\* multiplied and divided digit by digit; the loops are evaluated by halves.

\* One step of b * m: byte i of st.n is multiplied and the carry passed on
BigMulStep(m, i, st) ==
    [n     |-> [st.n EXCEPT ![i] = (st.n[i] * m + st.carry) % 256],
     carry |-> (st.n[i] * m + st.carry) \div 256]

RECURSIVE BigMulRange(_, _, _, _)
\* The multiplication steps for the bytes hi down to lo
BigMulRange(m, lo, hi, st) ==
    IF lo > hi THEN st
    ELSE IF lo = hi THEN BigMulStep(m, lo, st)
    ELSE Call4(BigMulRange, m, lo, (lo + hi) \div 2,
               BigMulRange(m, (lo + hi) \div 2 + 1, hi, st))

\* b * m for 0 <= m < 2^23 (the product has at most 3 more bytes)
BigMul(b, m) ==
    Call1(LAMBDA st: LStripZeros(st.n),
          Call4(BigMulRange, m, 1, Len(b) + 3,
                [n |-> Zeros(3) \o b, carry |-> 0]))

\* One step of the long division by d: the next byte of b is brought down
BigDivStep(b, d, i, st) ==
    [q |-> st.q \o <<(st.r * 256 + b[i]) \div d>>,
     r |-> (st.r * 256 + b[i]) % d]

RECURSIVE BigDivRange(_, _, _, _, _)
\* The division steps for the bytes lo to hi of b
BigDivRange(b, d, lo, hi, st) ==
    IF lo > hi THEN st
    ELSE IF lo = hi THEN BigDivStep(b, d, lo, st)
    ELSE Call1(LAMBDA half: BigDivRange(b, d, (lo + hi) \div 2 + 1, hi, half),
               BigDivRange(b, d, lo, (lo + hi) \div 2, st))

\* divmod(b, d) for 0 < d < 2^23
BigDivMod(b, d) ==
    Call1(LAMBDA st: [q |-> LStripZeros(st.q), r |-> st.r],
          BigDivRange(b, d, 1, Len(b), [q |-> <<>>, r |-> 0]))

\* a < b for integers without leading zero bytes
BigLess(a, b) ==
    \/ Len(a) < Len(b)
    \/ /\ Len(a) = Len(b)
       /\ \E i \in 1..Len(a) :
            /\ a[i] < b[i]
            /\ \A j \in 1..(i - 1) : a[j] = b[j]

\* The number of bits of an integer without leading zero bytes
BigBitLength(b) ==
    IF b = <<>> THEN 0 ELSE 8 * (Len(b) - 1) + BitLength(b[1])

\* Bit i of b, counted from the most significant bit of the first byte
BigBit(b, i) ==
    (b[Len(b) - (BigBitLength(b) - i) \div 8]
        \div Pow(2, (BigBitLength(b) - i) % 8)) % 2

\* The integer with the given bits, most significant first
BigFromBits(bits) ==
    Call1(LAMBDA padded:
            LStripZeros(Tuple([k \in 1..(Len(padded) \div 8) |->
                Sum(Tuple([j \in 1..8 |->
                    padded[8 * (k - 1) + j] * Pow(2, 8 - j)]))])),
          Zeros((8 - (Len(bits) % 8)) % 8) \o bits)

\* A target as Python holds it: an int, or the float coeff / 256**shift
\* that 256**(exponent - 3) gives for an exponent below 3
IntTarget(n) == [float |-> FALSE, n |-> n, shift |-> 0]

FloatTarget(coeff, shift) == [float |-> TRUE, n |-> coeff, shift |-> shift]

\* bits_to_target(bits)
bits_to_target(bits) ==
    Call2(LAMBDA exponent, coeff:
            IF exponent >= 3
            THEN IntTarget(IF coeff = <<>> THEN <<>>
                           ELSE coeff \o Zeros(exponent - 3))
            ELSE FloatTarget(coeff, 3 - exponent),
          bits[Len(bits)],
          LStripZeros(Reverse(SubSeq(bits, 1, Len(bits) - 1))))

\* The width of target.to_bytes(32, 'big')
TargetLen == 32

\* b[0] >= 128
HighBit(b) == b[1] >= 128

\* target_to_bits(target): AttributeError for a float, OverflowError for
\* an int of more than 32 bytes, IndexError (b[0]) for 0
target_to_bits(target) ==
    IF target.float \/ Len(target.n) > TargetLen \/ target.n = <<>>
    THEN NoBytes
    ELSE IF HighBit(target.n)
    THEN Bytes(Reverse(<<0>> \o Take(target.n, 2)) \o <<Len(target.n) + 1>>)
    ELSE Bytes(Reverse(Take(target.n, 3)) \o <<Len(target.n)>>)

\* The bits of a Python float's significand, and the bit length from which
\* a float is too large
FloatBits == 53

FloatMaxBits == 1024

\* kept + 1 for a sequence of bits
BitsPlusOne(kept) ==
    IF \A i \in 1..Len(kept) : kept[i] = 1
    THEN <<1>> \o Zeros(Len(kept))
    ELSE Call1(LAMBDA p:
                 Tuple([i \in 1..Len(kept) |->
                     IF i < p THEN kept[i] ELSE IF i = p THEN 1 ELSE 0]),
               Only({p \in 1..Len(kept) :
                        /\ kept[p] = 0
                        /\ \A i \in (p + 1)..Len(kept) : kept[i] = 1}))

\* int(q + r / d) for the float nearest to q + r / d, when q has at most 53
\* bits: the fraction is rounded to the 53 - BigBitLength(q) bits the
\* float has left, to even on a tie, and reaches 1 only from
\* 1 - 2^-(left + 1) on
RoundsUpSmall(q, r, d) ==
    Call1(LAMBDA left:
            IF left = 0
            THEN 2 * r > d \/ (2 * r = d /\ q[Len(q)] % 2 = 1)
            ELSE left < 30 /\ d - r <= d \div Pow(2, left + 1),
          FloatBits - BigBitLength(q))

\* q rounded to its first 53 bits, to even on a tie (r # 0 breaks a tie
\* upwards), as bits
RoundLarge(q, r) ==
    Call2(LAMBDA kept, up:
            (IF up THEN BitsPlusOne(kept) ELSE kept)
                \o Zeros(BigBitLength(q) - FloatBits),
          Tuple([i \in 1..FloatBits |-> BigBit(q, i)]),
          /\ BigBit(q, FloatBits + 1) = 1
          /\ \/ r # 0
             \/ \E i \in (FloatBits + 2)..BigBitLength(q) : BigBit(q, i) = 1
             \/ BigBit(q, FloatBits) = 1)

\* int(n / d) with Python's true division of ints: the quotient is the
\* nearest float; OverflowError when that float would be 2^1024 or more
IntOfTrueDiv(n, d) ==
    Call1(LAMBDA dm:
            IF BigBitLength(dm.q) <= FloatBits
            THEN IF dm.q # <<>> /\ RoundsUpSmall(dm.q, dm.r, d)
                 THEN Bytes(BigFromBits(BitsPlusOne(
                        Tuple([i \in 1..BigBitLength(dm.q) |->
                                  BigBit(dm.q, i)]))))
                 ELSE Bytes(dm.q)
            ELSE Call1(LAMBDA bits:
                         IF Len(bits) > FloatMaxBits THEN NoBytes
                         ELSE Bytes(BigFromBits(bits)),
                       RoundLarge(dm.q, dm.r)),
          BigDivMod(n, d))

\* two_weeks = 60*60*24*14
two_weeks == 60 * 60 * 24 * 14

\* 0xffff * 256**(0x1d - 3)
MaxTarget == <<255, 255>> \o Zeros(29 - 3)

\* int(prev_target * dt / two_weeks): for an int prev_target the product
\* is exact and the division is true division; for a float prev_target
\* (coeff / 256**shift, coeff < 2^24) the product coeff * dt / 256**shift
\* is an exact float, the quotient is below 2^19 and the float nearest
\* to it has the same integer part
NewTarget(prev_target, dt) ==
    IF prev_target.float
    THEN Bytes(BigDivMod(
                 Call1(LAMBDA prod: Take(prod, Len(prod) - prev_target.shift),
                       BigMul(prev_target.n, dt)),
                 two_weeks).q)
    ELSE IntOfTrueDiv(BigMul(prev_target.n, dt), two_weeks)

\* max(min(dt, two_weeks*4), two_weeks//4)
Clamp(dt) ==
    IF dt > two_weeks * 4 THEN two_weeks * 4
    ELSE IF dt < two_weeks \div 4 THEN two_weeks \div 4 ELSE dt

\* calculate_new_bits(prev_bits, dt)
calculate_new_bits(prev_bits, dt) ==
    Call1(LAMBDA new_target:
            IF ~new_target.ok THEN NoBytes
            ELSE target_to_bits(IntTarget(
                    IF BigLess(MaxTarget, new_target.v) THEN MaxTarget
                    ELSE new_target.v)),
          NewTarget(bits_to_target(prev_bits), Clamp(dt)))

\* The bytes of a block header: version, prev_block, merkle_root,
\* timestamp, bits, nonce
HeaderLen == 4 + 32 + 32 + 4 + 4 + 4

\* Block.decode(s): s.read returns the bytes that are there, so a stream
\* that ends early gives shorter fields
BlockDecode(s) ==
    [ok   |-> TRUE,
     v    |-> [version     |-> decode_int(s, 4).v,
               prev_block  |-> Reverse(Take(Drop(s, 4), 32)),
               merkle_root |-> Reverse(Take(Drop(s, 36), 32)),
               timestamp   |-> decode_int(Drop(s, 68), 4).v,
               bits        |-> Take(Drop(s, 72), 4),
               nonce       |-> Take(Drop(s, 76), 4)],
     rest |-> Drop(s, HeaderLen)]

\* Block.encode()
BlockEncode(block) ==
    ToBytesLittle(block.version, 4) \o Reverse(block.prev_block)
      \o Reverse(block.merkle_root) \o ToBytesLittle(block.timestamp, 4)
      \o block.bits \o block.nonce

-----------------------------------------------------------------------------
\* Codec scenarios: a byte string is decoded and the result encoded again

NoValue == [ok |-> FALSE]

Nobody == [sk |-> 0, net |-> "main", compressed |-> FALSE]

KeyIdle ==
    /\ octets = <<>> /\ parsed = NoValue /\ written = NoBytes
    /\ holder = Nobody /\ kpc = "idle"

\* The byte strings of length 0 to 2 over a few byte values
ShortStrings(byteValues) ==
    {<<>>} \cup {<<a>> : a \in byteValues}
           \cup {<<a, b>> : a \in byteValues, b \in byteValues}

\* Byte strings laid out as 0x30 len 0x02 rlen R 0x02 slen S, with right and
\* wrong tags and length bytes, and with R and S minimal or not
DerStrings ==
    {<<t0, Len(R) + Len(S) + 4 + dl, t1, Len(R) + dr>> \o R
        \o <<t2, Len(S) + ds>> \o S :
        t0 \in {48, 49}, t1 \in {2, 3}, t2 \in {2, 3},
        dl \in {0, 1}, dr \in {0, 1}, ds \in {0, 1},
        R \in ShortStrings({0, 5, 128}), S \in ShortStrings({0, 5, 128})}

DerInit ==
    /\ octets \in DerStrings
    /\ parsed = NoValue /\ written = NoBytes
    /\ holder = Nobody /\ kpc = "start"

\* sig = Signature.decode(der)
DecodeDer ==
    /\ kpc = "start"
    /\ parsed' = SignatureDecode(octets)
    /\ kpc' = "decoded"
    /\ UNCHANGED <<octets, written, holder>>
    /\ UNCHANGED <<ecdsaVars, envVars, nodeVars, txVars, blockVars, fetchVars,
                   scriptVars, pointVars>>

\* der2 = sig.encode()
EncodeDer ==
    /\ kpc = "decoded"
    /\ parsed.ok
    /\ written' = SignatureEncode(parsed.v)
    /\ kpc' = "encoded"
    /\ UNCHANGED <<octets, parsed, holder>>
    /\ UNCHANGED <<ecdsaVars, envVars, nodeVars, txVars, blockVars, fetchVars,
                   scriptVars, pointVars>>

DerNext == DecodeDer \/ EncodeDer

\* Byte strings in the SEC layout: a prefix byte and one coordinate
\* (compressed), or 0x04 and two coordinates (uncompressed)
SecStrings ==
    {<<prefix, x>> : prefix \in {2, 3, 5}, x \in 0..255}
        \cup {<<4, x, y>> : x \in 0..BITCOIN.p, y \in 0..BITCOIN.p}

SecInit ==
    /\ octets \in SecStrings
    /\ parsed = NoValue /\ written = NoBytes
    /\ holder = Nobody /\ kpc = "start"

\* pk = PublicKey.decode(b)
DecodeSec ==
    /\ kpc = "start"
    /\ parsed' = PublicKeyDecode(octets)
    /\ kpc' = "decoded"
    /\ UNCHANGED <<octets, written, holder>>
    /\ UNCHANGED <<ecdsaVars, envVars, nodeVars, txVars, blockVars, fetchVars,
                   scriptVars, pointVars>>

\* b2 = pk.encode(compressed)
EncodeSec ==
    /\ kpc = "decoded"
    /\ parsed.ok
    /\ written' = Bytes(PublicKeyEncode(parsed.v, octets[1] # 4))
    /\ kpc' = "encoded"
    /\ UNCHANGED <<octets, parsed, holder>>
    /\ UNCHANGED <<ecdsaVars, envVars, nodeVars, txVars, blockVars, fetchVars,
                   scriptVars, pointVars>>

SecNext == DecodeSec \/ EncodeSec

\* ---- addresses: pk.address(net, compressed), address_to_pkb_hash ----

\* The characters a garbled address gets: two of the alphabet and one that
\* is not in it
GarbleChars == {"1", "z", "0"}

\* The holders whose address gets mistyped
GarbledKeys == {Owner, Other}

AddressInit ==
    /\ holder \in [sk : SecretKeys, net : {"main", "test"},
                    compressed : BOOLEAN]
    /\ octets = <<>> /\ parsed = NoValue /\ written = NoBytes
    /\ kpc = "start"

\* addr = pk.address(net, compressed)
MakeAddress ==
    /\ kpc = "start"
    /\ written' = address(PublicKeyFromSk(holder.sk), holder.net,
                          holder.compressed)
    /\ octets' = written'.v
    /\ kpc' = "addressed"
    /\ UNCHANGED <<parsed, holder>>
    /\ UNCHANGED <<ecdsaVars, envVars, nodeVars, txVars, blockVars, fetchVars,
                   scriptVars, pointVars>>

\* The address is mistyped: one character replaced, the first one dropped,
\* or one more in front
Garble ==
    /\ kpc = "addressed"
    /\ holder.sk \in GarbledKeys
    /\ \/ \E j \in 1..Len(octets), c \in GarbleChars :
            /\ c # octets[j]
            /\ octets' = [octets EXCEPT ![j] = c]
       \/ octets' = Tail(octets)
       \/ \E c \in GarbleChars : octets' = <<c>> \o octets
    /\ kpc' = "garbled"
    /\ UNCHANGED <<parsed, written, holder>>
    /\ UNCHANGED <<ecdsaVars, envVars, nodeVars, txVars, blockVars, fetchVars,
                   scriptVars, pointVars>>

\* pkb_hash2 = address_to_pkb_hash(address)
DecodeAddress ==
    /\ kpc \in {"addressed", "garbled"}
    /\ parsed' = address_to_pkb_hash(octets)
    /\ kpc' = "decoded"
    /\ UNCHANGED <<octets, written, holder>>
    /\ UNCHANGED <<ecdsaVars, envVars, nodeVars, txVars, blockVars, fetchVars,
                   scriptVars, pointVars>>

AddressNext == MakeAddress \/ Garble \/ DecodeAddress

\* ---- bits and targets: bits_to_target, target_to_bits, retargeting ----

NoTarget == [float |-> FALSE, n |-> <<>>, shift |-> 0]

BlockIdle ==
    /\ cur_bits = <<>> /\ elapsed = 0 /\ cur_target = NoTarget
    /\ next_bits = NoBytes /\ bpc = "idle"

\* Bits fields: mantissas with and without the high bit and with zero
\* bytes, exponents below 3, around the 32 bytes of a target and beyond
BitsSamples ==
    {<<c0, c1, c2, exponent>> :
        c0 \in {0, 1, 255}, c1 \in {0, 128, 216, 255},
        c2 \in {0, 1, 127, 128},
        exponent \in {0, 1, 2, 3, 4, 24, 29, 30, 32, 33, 34, 128, 255}}

\* Elapsed times around the clamping bounds and two_weeks
DtSamples ==
    {-1, 0, (two_weeks \div 4) - 1, two_weeks \div 4, (two_weeks \div 4) + 1,
     two_weeks - 1, two_weeks, two_weeks + 1,
     4 * two_weeks - 1, 4 * two_weeks, 4 * two_weeks + 1, 1000000000}

BitsInit ==
    /\ cur_bits \in BitsSamples
    /\ elapsed \in DtSamples
    /\ cur_target = NoTarget /\ next_bits = NoBytes /\ bpc = "start"

\* target = bits_to_target(bits)
ToTarget ==
    /\ bpc = "start"
    /\ cur_target' = bits_to_target(cur_bits)
    /\ bpc' = "target"
    /\ UNCHANGED <<cur_bits, elapsed, next_bits>>
    /\ UNCHANGED <<ecdsaVars, envVars, nodeVars, txVars, keyVars, fetchVars,
                   scriptVars, pointVars>>

\* bits2 = target_to_bits(target)
ToBits ==
    /\ bpc = "target"
    /\ next_bits' = target_to_bits(cur_target)
    /\ bpc' = "bits"
    /\ UNCHANGED <<cur_bits, elapsed, cur_target>>
    /\ UNCHANGED <<ecdsaVars, envVars, nodeVars, txVars, keyVars, fetchVars,
                   scriptVars, pointVars>>

\* next_bits = calculate_new_bits(prev_bits, dt)
Retarget ==
    /\ bpc = "start"
    /\ next_bits' = calculate_new_bits(cur_bits, elapsed)
    /\ bpc' = "retargeted"
    /\ UNCHANGED <<cur_bits, elapsed, cur_target>>
    /\ UNCHANGED <<ecdsaVars, envVars, nodeVars, txVars, keyVars, fetchVars,
                   scriptVars, pointVars>>

BitsNext == ToTarget \/ ToBits \/ Retarget

\* ---- TxFetcher.fetch: callers that share the cache file of one id ----

\* The callers of fetch, all for the id of Funding
Fetchers == {1, 2}

\* The fetch calls one caller makes at most
MaxFetches == 2

\* The bytes the API holds for the id, and the bytes of another
\* transaction
GoodRaw == TxEncode(Funding, FALSE).v

WrongRaw == TxEncode(Unsigned(1, 40), FALSE).v

NoFile == [exists |-> FALSE, bytes |-> <<>>]

NotCalled == [ret |-> "none", tx |-> NotFetched]

FetchIdle ==
    /\ api = "honest" /\ cache = NoFile
    /\ fpc = <<>> /\ fraw = <<>> /\ fres = <<>> /\ fcalls = <<>>

FetchInit ==
    /\ api \in {"honest", "wrong", "missing"}
    /\ cache = NoFile
    /\ fpc = [p \in Fetchers |-> "idle"]
    /\ fraw = [p \in Fetchers |-> <<>>]
    /\ fres = [p \in Fetchers |-> NotCalled]
    /\ fcalls = [p \in Fetchers |-> 0]

\* TxFetcher.fetch(tx_id, net) is called
CallFetch(p) ==
    /\ fpc[p] = "idle"
    /\ fcalls[p] < MaxFetches
    /\ fcalls' = [fcalls EXCEPT ![p] = @ + 1]
    /\ fpc' = [fpc EXCEPT ![p] = "check"]
    /\ fres' = [fres EXCEPT ![p] = NotCalled]
    /\ UNCHANGED <<api, cache, fraw>>
    /\ UNCHANGED <<ecdsaVars, envVars, nodeVars, txVars, keyVars, blockVars,
                   scriptVars, pointVars>>

\* if os.path.isfile(cache_file)
CheckCache(p) ==
    /\ fpc[p] = "check"
    /\ fpc' = [fpc EXCEPT ![p] = IF cache.exists THEN "hit" ELSE "miss"]
    /\ UNCHANGED <<api, cache, fraw, fres, fcalls>>
    /\ UNCHANGED <<ecdsaVars, envVars, nodeVars, txVars, keyVars, blockVars,
                   scriptVars, pointVars>>

\* with open(cache_file, 'rb') as f: raw = f.read()
ReadCache(p) ==
    /\ fpc[p] = "hit"
    /\ fraw' = [fraw EXCEPT ![p] = cache.bytes]
    /\ fpc' = [fpc EXCEPT ![p] = "decode"]
    /\ UNCHANGED <<api, cache, fres, fcalls>>
    /\ UNCHANGED <<ecdsaVars, envVars, nodeVars, txVars, keyVars, blockVars,
                   scriptVars, pointVars>>

\* response = requests.get(url); assert response.status_code == 200;
\* raw = bytes.fromhex(response.text.strip())
Download(p) ==
    /\ fpc[p] = "miss"
    /\ IF api = "missing"
       THEN /\ fres' = [fres EXCEPT ![p] = [ret |-> "raise", tx |-> NotFetched]]
            /\ fpc' = [fpc EXCEPT ![p] = "idle"]
            /\ UNCHANGED fraw
       ELSE /\ fraw' = [fraw EXCEPT ![p] =
                            IF api = "honest" THEN GoodRaw ELSE WrongRaw]
            /\ fpc' = [fpc EXCEPT ![p] = "open"]
            /\ UNCHANGED fres
    /\ UNCHANGED <<api, cache, fcalls>>
    /\ UNCHANGED <<ecdsaVars, envVars, nodeVars, txVars, keyVars, blockVars,
                   scriptVars, pointVars>>

\* open(cache_file, 'wb'): the file exists from here on, and is empty
OpenCache(p) ==
    /\ fpc[p] = "open"
    /\ cache' = [exists |-> TRUE, bytes |-> <<>>]
    /\ fpc' = [fpc EXCEPT ![p] = "write"]
    /\ UNCHANGED <<api, fraw, fres, fcalls>>
    /\ UNCHANGED <<ecdsaVars, envVars, nodeVars, txVars, keyVars, blockVars,
                   scriptVars, pointVars>>

\* Bytes written at the start of a file over what it holds
Overlay(old, data) == data \o Drop(old, Len(data))

\* f.write(raw) reaches the file in part before the file is closed
FlushCache(p) ==
    /\ fpc[p] = "write"
    /\ cache' = [cache EXCEPT !.bytes =
                    Overlay(@, Take(fraw[p], Len(fraw[p]) \div 2))]
    /\ cache' # cache
    /\ UNCHANGED <<api, fpc, fraw, fres, fcalls>>
    /\ UNCHANGED <<ecdsaVars, envVars, nodeVars, txVars, keyVars, blockVars,
                   scriptVars, pointVars>>

\* f.write(raw) and the end of the with block: all of raw is in the file
WriteCache(p) ==
    /\ fpc[p] = "write"
    /\ cache' = [cache EXCEPT !.bytes = Overlay(@, fraw[p])]
    /\ fpc' = [fpc EXCEPT ![p] = "decode"]
    /\ UNCHANGED <<api, fraw, fres, fcalls>>
    /\ UNCHANGED <<ecdsaVars, envVars, nodeVars, txVars, keyVars, blockVars,
                   scriptVars, pointVars>>

\* tx = Tx.decode(BytesIO(raw)); assert tx.id() == tx_id; return tx
DecodeFetched(p) ==
    /\ fpc[p] = "decode"
    /\ fres' = [fres EXCEPT ![p] =
                   Call1(LAMBDA f: IF f.ok THEN [ret |-> "tx", tx |-> f]
                                   ELSE [ret |-> "raise", tx |-> NotFetched],
                         Fetch(FundingId :> fraw[p], FundingId))]
    /\ fpc' = [fpc EXCEPT ![p] = "idle"]
    /\ UNCHANGED <<api, cache, fraw, fcalls>>
    /\ UNCHANGED <<ecdsaVars, envVars, nodeVars, txVars, keyVars, blockVars,
                   scriptVars, pointVars>>

FetchNext ==
    \E p \in Fetchers :
        \/ CallFetch(p) \/ CheckCache(p) \/ ReadCache(p) \/ Download(p)
        \/ OpenCache(p) \/ FlushCache(p) \/ WriteCache(p)
        \/ DecodeFetched(p)

\* ---- Script.evaluate: combined scripts a node may be handed ----

\* The encodings that were signed
Preimages == {<<1, 2>>, <<3>>}

\* cmds[0]: a signature of m with its sighash byte, or something else
SigBlobs(m) ==
    { SigBlob(sk, m, k, sighash) :
        sk \in {Owner, Other}, k \in Ephemerals, sighash \in {1, 2} }
      \cup {<<0>>, <<1>>, <<48, 0, 1>>}

\* cmds[1]: a SEC public key, or something else
PubkeyBlobs == {PkBytes(Owner), PkBytes(Other), <<2>>, <<4, 1, 1>>}

\* cmds[4]: the hash a script_pubkey commits to
HashBlobs == {PkbHash(Owner), PkbHash(Other)}

\* How the commands are laid out: a P2PKH spend, or another shape
ScriptShapes == {"p2pkh", "no_signature", "swapped_ops", "op_for_key"}

\* script_sig + script_pubkey
CombinedScript(shape, sg, pkb, h) ==
    CASE shape = "p2pkh" -> <<Data(sg), Data(pkb)>> \o P2PKH(h)
      [] shape = "no_signature" -> <<Data(pkb)>> \o P2PKH(h)
      [] shape = "swapped_ops" ->
           <<Data(sg), Data(pkb), Op(OP_DUP), Op(OP_HASH160), Data(h),
             Op(OP_CHECKSIG), Op(OP_EQUALVERIFY)>>
      [] shape = "op_for_key" -> <<Data(sg), Op(OP_DUP)>> \o P2PKH(h)

ScriptIdle ==
    /\ combined = <<>> /\ preimage = <<>> /\ accepted = "none"
    /\ spc = "off"

ScriptInit ==
    /\ preimage \in Preimages
    /\ \E shape \in ScriptShapes, sg \in SigBlobs(preimage),
          pkb \in PubkeyBlobs, h \in HashBlobs :
            combined = CombinedScript(shape, sg, pkb, h)
    /\ accepted = "none"
    /\ spc = "start"

\* valid = combined.evaluate(mod_tx_enc)
EvaluateScript ==
    /\ spc = "start"
    /\ accepted' = evaluate(combined, preimage)
    /\ spc' = "evaluated"
    /\ UNCHANGED <<combined, preimage>>
    /\ UNCHANGED <<ecdsaVars, envVars, nodeVars, txVars, keyVars, blockVars,
                   fetchVars, pointVars>>

ScriptNext == EvaluateScript

\* ---- Point addition: every pair of points of the curve ----

\* The points (x, y) with y^2 = x^3 + a*x + b (mod p), and INF
CurvePoints ==
    { P \in [x : 0..(BITCOIN.p - 1), y : 0..(BITCOIN.p - 1)] : OnCurve(P) }
      \cup {INF}

NoPoint == [x |-> -2, y |-> -2]

PointIdle ==
    /\ augend = INF /\ addend = INF
    /\ total = [pq |-> NoPoint, qp |-> NoPoint]
    /\ ppc = "off"

PointInit ==
    /\ augend \in CurvePoints
    /\ addend \in CurvePoints
    /\ total = [pq |-> NoPoint, qp |-> NoPoint]
    /\ ppc = "start"

\* P + Q and Q + P
AddPoints ==
    /\ ppc = "start"
    /\ total' = [pq |-> PointAdd(augend, addend),
                 qp |-> PointAdd(addend, augend)]
    /\ ppc' = "added"
    /\ UNCHANGED <<augend, addend>>
    /\ UNCHANGED <<ecdsaVars, envVars, nodeVars, txVars, keyVars, blockVars,
                   fetchVars, scriptVars>>

PointNext == AddPoints

\* ---- Script.encode and Script.decode: commands in each wire form ----

\* The wire forms of a command of the script body
WireForms == {"op", "direct", "pushdata1", "pushdata2", "pushdata4"}

\* Opcodes outside the push-data range, and element lengths at the ends
\* of the range of each form
WireItems ==
    [form : {"op"}, n : {0, 79, OP_CHECKSIG}]
      \cup [form : {"direct"}, n : {1, 74, 75}]
      \cup [form : {"pushdata1"}, n : {3, 76, 255}]
      \cup [form : {"pushdata2"}, n : {5, 256, 520, 521}]
      \cup [form : {"pushdata4"}, n : {1, 3}]

\* The n bytes of an element: 2, 3, 4, then 75s
Payload(n) == Tuple([i \in 1..n |-> IF i <= 3 THEN i + 1 ELSE 75])

\* The command an item stands for: an opcode, or an element of n bytes
ItemCmd(item) ==
    IF item.form = "op" THEN Op(item.n) ELSE Data(Payload(item.n))

\* The bytes of an item on the wire
ItemWire(item) ==
    CASE item.form = "op" -> <<item.n>>
      [] item.form = "direct" -> <<item.n>> \o Payload(item.n)
      [] item.form = "pushdata1" -> <<76, item.n>> \o Payload(item.n)
      [] item.form = "pushdata2" ->
           <<77>> \o ToBytesLittle(item.n, 2) \o Payload(item.n)
      [] item.form = "pushdata4" ->
           <<78>> \o ToBytesLittle(item.n, 4) \o Payload(item.n)

\* A script of one or two items: its commands, its body on the wire
ItemsCmds(items) == Tuple([i \in 1..Len(items) |-> ItemCmd(items[i])])

ItemsBody(items) ==
    IF Len(items) = 1 THEN ItemWire(items[1])
    ELSE ItemWire(items[1]) \o ItemWire(items[2])

WireInit ==
    /\ holder \in {<<a>> : a \in WireItems}
                    \cup {<<a, b>> : a \in WireItems, b \in WireItems}
    /\ octets = Call1(LAMBDA body: encode_varint(Len(body)) \o body,
                      ItemsBody(holder))
    /\ parsed = NoValue
    /\ written = NoBytes
    /\ kpc = "start"

\* Script(cmds).encode()
EncodeScript ==
    /\ kpc = "start"
    /\ written' = ScriptEncode(ItemsCmds(holder))
    /\ kpc' = "encoded"
    /\ UNCHANGED <<octets, parsed, holder>>
    /\ UNCHANGED <<ecdsaVars, envVars, nodeVars, txVars, blockVars, fetchVars,
                   scriptVars, pointVars>>

\* Script.decode(BytesIO(octets))
DecodeScript ==
    /\ kpc = "start"
    /\ parsed' = ScriptDecode(octets)
    /\ kpc' = "decoded"
    /\ UNCHANGED <<octets, written, holder>>
    /\ UNCHANGED <<ecdsaVars, envVars, nodeVars, txVars, blockVars, fetchVars,
                   scriptVars, pointVars>>

WireNext == EncodeScript \/ DecodeScript

\* ---- Block.decode and Block.encode: headers, whole and cut short ----

\* The header of test_block.py
TestHeader ==
    <<2, 0, 0, 32>>
      \o <<142, 195, 148, 40, 177, 115, 35, 250, 13, 222, 200, 232, 135, 180,
           167, 197, 59, 140, 10, 10, 34, 12, 253, 0, 0, 0, 0, 0, 0, 0, 0, 0>>
      \o <<91, 7, 80, 252, 224, 168, 137, 80, 45, 64, 80, 141, 57, 87, 104,
           33, 21, 94, 156, 158, 63, 92, 49, 87, 249, 97, 219, 56, 253, 139,
           37, 190>>
      \o <<30, 119, 167, 89>> \o <<233, 60, 1, 24>> \o <<164, 255, 215, 29>>

\* Other headers: the fields filled with one byte value, the integers kept
\* below 2^31
FilledHeader(b) ==
    <<b, b, b, b % 128>> \o Tuple([i \in 1..64 |-> b])
      \o <<b, b, b, b % 128>> \o <<b, b, b, b>> \o <<b, b, b, b>>

Headers == {TestHeader} \cup {FilledHeader(b) : b \in {0, 1, 128, 255}}

\* How many bytes of a header the stream holds; one more than a header
\* stands for a stream that goes on
StreamLengths == {0, 1, 3, 4, 36, 68, 72, 76, 79, HeaderLen, HeaderLen + 1}

HeaderInit ==
    /\ \E h \in Headers, n \in StreamLengths :
          octets = Take(h \o <<7>>, n)
    /\ parsed = NoValue
    /\ written = NoBytes
    /\ holder = Nobody
    /\ kpc = "start"

\* block = Block.decode(BytesIO(raw))
DecodeBlock ==
    /\ kpc = "start"
    /\ parsed' = BlockDecode(octets)
    /\ kpc' = "decoded"
    /\ UNCHANGED <<octets, written, holder>>
    /\ UNCHANGED <<ecdsaVars, envVars, nodeVars, txVars, blockVars, fetchVars,
                   scriptVars, pointVars>>

\* raw2 = block.encode()
EncodeBlock ==
    /\ kpc = "decoded"
    /\ parsed.ok
    /\ written' = Bytes(BlockEncode(parsed.v))
    /\ kpc' = "encoded"
    /\ UNCHANGED <<octets, parsed, holder>>
    /\ UNCHANGED <<ecdsaVars, envVars, nodeVars, txVars, blockVars, fetchVars,
                   scriptVars, pointVars>>

HeaderNext == DecodeBlock \/ EncodeBlock

-----------------------------------------------------------------------------
\* Specifications

InitEcdsa == EcdsaInit /\ EnvIdle /\ NodeIdle /\ TxIdle /\ KeyIdle /\ BlockIdle /\ FetchIdle
        /\ ScriptIdle /\ PointIdle

SpecEcdsa == InitEcdsa /\ [][EcdsaNext]_vars

InitPresented == PresentedInit /\ EnvIdle /\ NodeIdle /\ TxIdle /\ KeyIdle /\ BlockIdle /\ FetchIdle
        /\ ScriptIdle /\ PointIdle

SpecPresented == InitPresented /\ [][Verify]_vars

InitDer == DerInit /\ EcdsaIdle /\ EnvIdle /\ NodeIdle /\ TxIdle /\ BlockIdle /\ FetchIdle
        /\ ScriptIdle /\ PointIdle

SpecDer == InitDer /\ [][DerNext]_vars

InitSec == SecInit /\ EcdsaIdle /\ EnvIdle /\ NodeIdle /\ TxIdle /\ BlockIdle /\ FetchIdle
        /\ ScriptIdle /\ PointIdle

SpecSec == InitSec /\ [][SecNext]_vars

InitAddress == AddressInit /\ EcdsaIdle /\ EnvIdle /\ NodeIdle /\ TxIdle /\ BlockIdle /\ FetchIdle
        /\ ScriptIdle /\ PointIdle

SpecAddress == InitAddress /\ [][AddressNext]_vars

InitBits ==
    BitsInit /\ EcdsaIdle /\ EnvIdle /\ NodeIdle /\ TxIdle /\ KeyIdle
        /\ FetchIdle /\ ScriptIdle /\ PointIdle

SpecBits == InitBits /\ [][BitsNext]_vars

InitFetch ==
    FetchInit /\ EcdsaIdle /\ EnvIdle /\ NodeIdle /\ TxIdle /\ KeyIdle
        /\ BlockIdle /\ ScriptIdle /\ PointIdle

SpecFetch == InitFetch /\ [][FetchNext]_vars

InitWire ==
    WireInit /\ EcdsaIdle /\ EnvIdle /\ NodeIdle /\ TxIdle /\ BlockIdle
        /\ FetchIdle /\ ScriptIdle /\ PointIdle

SpecWire == InitWire /\ [][WireNext]_vars

InitHeader ==
    HeaderInit /\ EcdsaIdle /\ EnvIdle /\ NodeIdle /\ TxIdle /\ BlockIdle
        /\ FetchIdle /\ ScriptIdle /\ PointIdle

SpecHeader == InitHeader /\ [][HeaderNext]_vars

InitScript ==
    ScriptInit /\ EcdsaIdle /\ EnvIdle /\ NodeIdle /\ TxIdle /\ KeyIdle
        /\ BlockIdle /\ FetchIdle /\ PointIdle

SpecScript == InitScript /\ [][ScriptNext]_vars

InitPoint ==
    PointInit /\ EcdsaIdle /\ EnvIdle /\ NodeIdle /\ TxIdle /\ KeyIdle
        /\ BlockIdle /\ FetchIdle /\ ScriptIdle

SpecPoint == InitPoint /\ [][PointNext]_vars

InitEnvelope == EnvInit /\ EcdsaIdle /\ NodeIdle /\ TxIdle /\ KeyIdle /\ BlockIdle /\ FetchIdle
        /\ ScriptIdle /\ PointIdle

SpecEnvelope == InitEnvelope /\ [][EnvNext]_vars

InitNode == NodeInit /\ EcdsaIdle /\ EnvIdle /\ TxIdle /\ KeyIdle /\ BlockIdle /\ FetchIdle
        /\ ScriptIdle /\ PointIdle

SpecNode == InitNode /\ [][NodeNext]_vars

InitTx == TxInit /\ EcdsaIdle /\ EnvIdle /\ NodeIdle /\ KeyIdle /\ BlockIdle /\ FetchIdle
        /\ ScriptIdle /\ PointIdle

SpecTx == InitTx /\ [][TxNext]_vars

\* The node's thread runs: a loop pass happens when a frame is there to read,
\* and a return is not delayed for ever
FairSpecNode == SpecNode /\ WF_vars(WaitForIter) /\ WF_vars(Return)

-----------------------------------------------------------------------------
\* Claims

\* The header fields of a stream, by the wire layout
MagicField(s)    == Take(s, 4)
DeclaredLen(s)   == FromBytesLittle(Take(Drop(s, 16), 4))
ChecksumField(s) == Take(Drop(s, 20), 4)
Available(s)     == Drop(s, 24)

\* What the scripts of a validated transaction evaluate to, input by input
Evaluations(t, db) ==
    Tuple([k \in 1..Len(t.tx_ins) |-> EvaluateInput(t, k - 1, db)])

\* The contract of validate() on a legacy transaction, given its fee and the
\* evaluation of each input: true exactly when the fee is not negative and
\* every script evaluates to true; false with no script evaluated when the
\* fee is negative; false right after the first script that evaluates to false
ValidateContract(res, f, ev) ==
    /\ (res.ret = "true") <=>
           (f.ok /\ f.v >= 0 /\ \A k \in 1..Len(ev): ev[k] = "true")
    /\ (f.ok /\ f.v < 0) => res = [ret |-> "false", evaluated |-> 0]
    /\ \A k \in 1..Len(ev):
           (/\ f.ok /\ f.v >= 0
            /\ ev[k] = "false"
            /\ \A j \in 1..(k - 1): ev[j] = "true")
           => res = [ret |-> "false", evaluated |-> k]

C3_RoundTrip == tpc = "encoded" => (out.ok /\ out.v = raw)

\* C2: for every secret key, message and ephemeral scalar, verify accepts the
\* signature that sign returned under the signer's public key.
C2_SignThenVerify == epc = "verified" => verdict = "true"

\* A signature verify accepted
C2_Accepted == epc = "verified" /\ verdict = "true"

\* Whenever verify does not accept a signature sign returned, the signature
\* is out of range (s = 0, or r = x >= n) and verify raised
C2_OnlyRangeFailures ==
    (epc = "verified" /\ verdict # "true") =>
        /\ verdict = "raise"
        /\ sig.s = 0 \/ sig.r >= BITCOIN.n

\* ---- SimpleNode ----

\* The well-formed envelopes read so far carry command c at position i
ReadAt(i, c) == ConsumedEnv(i).ok /\ ConsumedEnv(i).command = c

HasRead(c) == \E i \in 1..Len(consumed): ReadAt(i, c)

HasSent(c) == \E i \in 1..Len(sent): sent[i].command = c

RECURSIVE CountSent(_, _)
CountSent(c, k) ==
    IF k = 0 THEN 0
    ELSE CountSent(c, k - 1) + (IF sent[k].command = c THEN 1 ELSE 0)

RECURSIVE CountRead(_, _)
CountRead(c, k) ==
    IF k = 0 THEN 0
    ELSE CountRead(c, k - 1) + (IF ReadAt(k, c) THEN 1 ELSE 0)

\* This step is a pass of wait_for's loop that read a well-formed envelope
\* with command c
LoopRead(c) ==
    /\ npc = "waiting"
    /\ Len(consumed') = Len(consumed) + 1
    /\ Read(consumed'[Len(consumed')]).ok
    /\ Read(consumed'[Len(consumed')]).command = c

\* C4 (as stated): in a run of handshake() alone the node sends version
\* before it reads anything, and sends no verack before it has read a
\* verack of the peer.
C4_NoVerAckBeforePeerVerAck ==
    ncalls = 0 =>
        /\ consumed # <<>> => (sent # <<>> /\ sent[1].command = CmdVersion)
        /\ HasSent(CmdVerAck) => HasRead(CmdVerAck)

\* C4 (amended): in a run of handshake() alone the node sends version before
\* it reads anything; it sends no verack before it has read a version of the
\* peer; every verack it sends answers a version it read, except the closing
\* one, which it sends only once it has read the peer's version and, after
\* it, the peer's verack.
C4_HandshakeOrder ==
    ncalls = 0 =>
        /\ consumed # <<>> => (sent # <<>> /\ sent[1].command = CmdVersion)
        /\ HasSent(CmdVerAck) => HasRead(CmdVersion)
        /\ CountSent(CmdVerAck, Len(sent)) =
             CountRead(CmdVersion, Len(consumed))
                + (IF handshaken THEN 1 ELSE 0)
        /\ handshaken =>
             /\ sent[Len(sent)].command = CmdVerAck
             /\ \E i, j \in 1..Len(consumed):
                  i < j /\ ReadAt(i, CmdVersion) /\ ReadAt(j, CmdVerAck)

\* handshake() has completed
C4_Completed == ncalls = 0 /\ handshaken /\ HasRead(CmdVerAck)

\* C5: a loop pass that reads a ping sends exactly one pong, whose payload
\* is that ping's nonce (what PingMessage.decode reads from it), whether or
\* not ping is requested.
C5_PongEchoesNonce ==
    [][ LoopRead(CmdPing) =>
          sent' = Append(sent,
                    Env(CmdPong,
                        MessageDecode(CmdPing,
                            Read(consumed'[Len(consumed')]).payload).nonce))
      ]_vars

\* What the code does: the pong carries the ping's whole payload
C5_PongEchoesPayload ==
    [][ LoopRead(CmdPing) =>
          sent' = Append(sent,
                    Env(CmdPong, Read(consumed'[Len(consumed')]).payload))
      ]_vars

\* C6: a loop pass that reads a version sends exactly one verack, in that
\* pass, whether or not version is requested; returning from wait_for sends
\* nothing.
C6_VersionGetsVerAck ==
    [][ /\ LoopRead(CmdVersion) => sent' = Append(sent, Env(CmdVerAck, <<>>))
        /\ (npc = "returning" /\ caller # "hs_verack") => sent' = sent
      ]_vars

\* A version that was not requested has been read and answered
C6_UnrequestedVersionAnswered ==
    /\ npc = "waiting" /\ CmdVersion \notin want
    /\ Len(consumed) > callStart
    /\ ReadAt(Len(consumed), CmdVersion)
    /\ sent # <<>> /\ sent[Len(sent)] = Env(CmdVerAck, <<>>)

\* C7: envelopes are read in arrival order; wait_for leaves its loop on the
\* first envelope whose command is requested and returns its decoding
\* without reading further; no step of handshake() hands a message to the
\* caller.
C7_FirstRequestedInOrder ==
    /\ [](consumed \o wire = arrived)
    /\ [](npc = "returning" =>
            /\ Len(consumed) > callStart
            /\ ConsumedEnv(Len(consumed)).ok
            /\ ConsumedEnv(Len(consumed)).command \in want
            /\ \A j \in (callStart + 1)..(Len(consumed) - 1):
                 ConsumedEnv(j).command \notin want)
    /\ [][ /\ npc = "returning" => consumed' = consumed
           /\ (npc = "returning" /\ caller = "user" /\ npc' = "idle") =>
               result' = MessageDecode(ConsumedEnv(Len(consumed)).command,
                                       ConsumedEnv(Len(consumed)).payload)
           /\ caller \in {"hs_version", "hs_verack"} => result' = result
         ]_vars

\* wait_for returned a message to the user after passing over another envelope
C7_ReturnedAfterOthers ==
    /\ npc = "idle" /\ result # NoMsg
    /\ Len(consumed) >= callStart + 2
    /\ result = MessageDecode(ConsumedEnv(Len(consumed)).command,
                              ConsumedEnv(Len(consumed)).payload)

\* A requested envelope is on the stream behind well-formed envelopes only
Deliverable ==
    /\ npc = "waiting"
    /\ \E i \in 1..Len(wire):
         /\ Read(wire[i]).ok /\ Read(wire[i]).command \in want
         /\ \A j \in 1..(i - 1): Read(wire[j]).ok

\* C8: wait_for has no timeout.  A requested envelope behind any number of
\* other well-formed envelopes is eventually returned; and wait_for leaves
\* its loop only by reading a requested envelope (or by read() raising).
C8_NoTimeout ==
    /\ Deliverable ~> (npc = "returning")
    /\ [][ (npc = "waiting" /\ npc' # "waiting") =>
             /\ Len(consumed') = Len(consumed) + 1
             /\ \/ npc' = "crashed" /\ ~Read(consumed'[Len(consumed')]).ok
                \/ /\ npc' = "returning"
                   /\ Read(consumed'[Len(consumed')]).command \in want
         ]_vars

\* wait_for left its loop on the third envelope it read
C8_ReturnedAfterTwoOthers ==
    npc = "returning" /\ Len(consumed) >= callStart + 3

\* C9: a loop pass that reads an envelope whose command is neither
\* requested nor ping nor version only consumes it: nothing is sent, nothing
\* is returned, and the loop goes on to the next read.
C9_OthersIgnored ==
    [][ (\E c \in {CmdVerAck, CmdPong, CmdSendHeaders}:
            c \notin want /\ LoopRead(c)) =>
          /\ sent' = sent
          /\ npc' = "waiting"
          /\ wire' = Tail(wire)
          /\ UNCHANGED <<net, arrived, want, caller, callStart, result,
                         handshaken, ncalls>>
      ]_vars

\* An envelope that was neither requested nor ping nor version has been read
C9_OtherRead ==
    /\ npc = "waiting" /\ Len(consumed) > callStart
    /\ ConsumedEnv(Len(consumed)).ok
    /\ ConsumedEnv(Len(consumed)).command \notin
         want \cup {CmdPing, CmdVersion}

\* C10: decode returns an envelope only if the magic is the net's, the
\* checksum field is hash256(payload)[:4] and the stream holds the declared
\* number of payload bytes.
C10_DecodeChecksAll ==
    (envpc = "decoded" /\ envelope.ok) =>
        /\ MagicField(stream) = MAGICS[env_net]
        /\ ChecksumField(stream) = Take(hash256(envelope.payload), 4)
        /\ Len(Available(stream)) >= DeclaredLen(stream)

\* What the code does check: the magic, and the checksum of the bytes it read
C10_MagicAndChecksum ==
    envpc = "decoded" =>
        (envelope.ok <=>
            /\ MagicField(stream) = MAGICS[env_net]
            /\ ChecksumField(stream) =
                 Take(hash256(Take(Available(stream), DeclaredLen(stream))), 4))

\* C11: for every byte string b that NetworkEnvelope.decode accepts on a net
\* (the bytes decode took off the stream), decode(b).encode() is b.
C11_EnvelopeRoundTrip ==
    envpc = "encoded" => reencoded = Take(stream, EnvelopeSize(stream))

\* C12: given that every referenced previous transaction can be fetched,
\* Tx.validate() on a decoded legacy transaction returns true or false and
\* never raises.
C12_ValidateNeverRaises ==
    (tpc = "validated" /\ ~tx.v.segwit /\ fee(tx.v, txdb).ok) =>
        vres.ret \in {"true", "false"}

\* C13: starting from a legacy transaction for which validate() is true,
\* replacing one byte of the DER signature or of the SEC public key in an
\* input's script_sig makes validate() return false, and restoring the byte
\* makes validate() return true again.
C13_FudgedIsRejected ==
    /\ tpc = "fudged" => vres.ret = "false"
    /\ tpc = "reverted" => vres.ret = "true"

\* What holds of the code: the fudged transaction is rejected or validate()
\* raises, and the reverted one validates
C13_FudgedNeverAccepted ==
    /\ tpc = "fudged" => vres.ret \in {"false", "raise"}
    /\ tpc = "reverted" => vres.ret = "true"

\* The transaction t with the script_sig of input i (0-based) replaced by the
\* script_pubkey of the output it spends and every other script_sig by the
\* empty script
ForSigning(t, i, db) ==
    [t EXCEPT !.tx_ins =
        Tuple([k \in 1..Len(t.tx_ins) |->
                 [t.tx_ins[k] EXCEPT !.script_sig =
                     IF k = i + 1 THEN PrevOut(db, t.tx_ins[k]).v.script_pubkey
                     ELSE <<>>]])]

\* The transaction t with every script_sig emptied
Unsign(t) ==
    [t EXCEPT !.tx_ins =
        Tuple([k \in 1..Len(t.tx_ins) |->
                 [t.tx_ins[k] EXCEPT !.script_sig = <<>>]])]

\* C14: for a legacy transaction and every input i whose previous output can
\* be fetched, Tx.encode(sig_index=i) is the normal serialization of the
\* transaction in which input i's script_sig is replaced by the script_pubkey
\* of the output it spends and every other script_sig by the empty script,
\* followed by the bytes 01 00 00 00; it is the same whatever the script_sigs
\* of the transaction are.
C14_SighashPreimage ==
    (/\ tpc = "sig_encoded" /\ ~tx.v.segwit
     /\ PrevOut(txdb, tx.v.tx_ins[enc_index + 1]).ok) =>
        /\ out = Call1(LAMBDA normal: Bytes(normal.v \o <<1, 0, 0, 0>>),
                       TxEncode(ForSigning(tx.v, enc_index, txdb), FALSE))
        /\ out = TxSigEncode(Unsign(tx.v), enc_index, txdb)

\* The preimage for the second input of a transaction with two signed inputs
C14_SecondOfTwoSigned ==
    /\ tpc = "sig_encoded" /\ ~tx.v.segwit
    /\ enc_index = 1
    /\ Len(tx.v.tx_ins) = 2
    /\ \A k \in 1..2: Len(tx.v.tx_ins[k].script_sig) = 2
    /\ out.ok

\* C15: every signature returned by sign satisfies 1 <= r < n and
\* 1 <= s < n, with r the x coordinate of (ephemeral k)*G reduced mod n.
C15_SignatureInRange ==
    epc = "signed" =>
        /\ 1 <= sig.r /\ sig.r < BITCOIN.n
        /\ 1 <= sig.s /\ sig.s < BITCOIN.n
        /\ sig.r = PublicKeyFromSk(ephemeral).x % BITCOIN.n

\* C16: every signature returned by sign satisfies s <= n/2.
C16_LowS == epc = "signed" => 2 * sig.s <= BITCOIN.n

\* What holds of the code: s is at most the float n / 2, which is above n/2,
\* and a computed s above that float is replaced by n - s
C16_BelowFloatHalf ==
    epc = "signed" =>
        /\ 2 * sig.s <= Float(BITCOIN.n)
        /\ \E s0 \in {sig.s, BITCOIN.n - sig.s}:
             (s0 * ephemeral - MessageInt(message) - secret_key * sig.r)
                 % BITCOIN.n = 0

\* C17: verify never returns true for a signature with r or s outside
\* [1, n), nor for a public key that is the point at infinity or is not on
\* the curve.
C17_VerifyRejectsBadInput ==
    (epc = "verified" /\ verdict = "true") =>
        /\ 1 <= sig.r /\ sig.r < BITCOIN.n
        /\ 1 <= sig.s /\ sig.s < BITCOIN.n
        /\ pub_key # INF
        /\ OnCurve(pub_key)

\* What holds of the code: r and s are checked, the public key is not
C17_RangeChecked ==
    epc = "verified" =>
        (verdict = "raise" <=>
            ~(/\ 1 <= sig.r /\ sig.r < BITCOIN.n
              /\ 1 <= sig.s /\ sig.s < BITCOIN.n))

\* C18: every byte string Signature.decode accepts is what encode() of the
\* decoded signature returns.
C18_DerRoundTrip ==
    kpc = "encoded" => written = Bytes(octets)

\* What holds of the code: an accepted string that encodes again encodes to
\* the DER form of the same (r, s), and that form round-trips
C18_CanonicalRoundTrip ==
    (kpc = "encoded" /\ written.ok) =>
        /\ SignatureDecode(written.v) = parsed
        /\ SignatureEncode(SignatureDecode(written.v).v) = written

\* C19: every point PublicKey.decode returns satisfies y^2 = x^3 + 7 mod p;
\* a SEC string whose point does not is rejected.
C19_DecodedOnCurve ==
    (kpc = "decoded" /\ parsed.ok) => OnCurve(parsed.v)

\* What holds of the code: the SEC encoding of a point of the curve decodes
\* to that point
C19_CurvePointsDecode ==
    (kpc = "decoded" /\ parsed.ok /\ OnCurve(parsed.v)
        /\ parsed.v.x < BITCOIN.p /\ parsed.v.y < BITCOIN.p) =>
        \A compressed \in BOOLEAN :
            PublicKeyDecode(PublicKeyEncode(parsed.v, compressed)).v = parsed.v

\* C20: address_to_pkb_hash returns the 20 bytes after the version byte
\* exactly when the last 4 of the 25 decoded bytes are hash256 of the first
\* 21, and fails otherwise; for the address of a public key, whatever the
\* net and the compression, it returns HASH160 of the key's SEC encoding.
C20_AddressRoundTrip ==
    kpc = "decoded" =>
        /\ Call1(LAMBDA d:
                   /\ parsed.ok <=>
                         /\ d.ok
                         /\ SubSeq(d.v, 22, 25)
                               = Take(hash256(SubSeq(d.v, 1, 21)), 4)
                   /\ parsed.ok => parsed.v = SubSeq(d.v, 2, 21),
                 b58decode(octets))
        /\ octets = written.v =>
              parsed = Bytes(hash160(PublicKeyEncode(
                           PublicKeyFromSk(holder.sk), holder.compressed)))

\* The address of a main-net key whose hash starts with a zero byte, which
\* starts with "11" (the version byte 0 and that byte), has been decoded to
\* its hash
C20_MainAddressRecovered ==
    /\ kpc = "decoded"
    /\ holder.net = "main"
    /\ octets = written.v
    /\ octets[1] = "1" /\ octets[2] = "1"
    /\ parsed.ok
    /\ Len(parsed.v) = 20 /\ parsed.v[1] = 0

\* A bits field whose mantissa is normalized with its sign bit clear: the
\* top mantissa byte is 1..127, or it is 0 and the next byte has its high
\* bit set
CanonicalBits(b) ==
    /\ Len(b) = 4
    /\ b[3] \in 1..127 \/ (b[3] = 0 /\ b[2] >= 128)

\* coeff * 256^(exponent - 3) is an integer
IntegerTarget(b) ==
    \/ b[4] >= 3
    \/ b[4] = 2 /\ b[1] = 0
    \/ b[4] = 1 /\ b[1] = 0 /\ b[2] = 0

\* coeff * 256^(exponent - 3) < 2^256
TargetFits(b) == b[4] <= 32 \/ (b[4] = 33 /\ b[3] = 0)

\* C21: for every canonical bits value whose target is a positive integer
\* below 2^256, target_to_bits(bits_to_target(bits)) is bits.
C21_BitsRoundTrip ==
    (bpc = "bits" /\ CanonicalBits(cur_bits) /\ IntegerTarget(cur_bits)
        /\ TargetFits(cur_bits)) =>
        next_bits = Bytes(cur_bits)

\* What holds of the code: the round trip from an exponent of 3 on
C21_RoundTripFromThree ==
    (bpc = "bits" /\ CanonicalBits(cur_bits) /\ TargetFits(cur_bits)
        /\ cur_bits[4] >= 3) =>
        next_bits = Bytes(cur_bits)

\* floor(prev_target * dt / two_weeks) for the target
\* coeff * 256^(exponent - 3) of bits and a clamped dt, in integers
ExactNewTarget(b, dt) ==
    Call1(LAMBDA prod:
            BigDivMod(IF prod = <<>> THEN <<>>
                      ELSE IF b[4] >= 3 THEN prod \o Zeros(b[4] - 3)
                      ELSE Take(prod, Len(prod) - (3 - b[4])),
                      two_weeks).q,
          BigMul(LStripZeros(<<b[3], b[2], b[1]>>), dt))

\* dt clamped into [two_weeks / 4, 4 * two_weeks]
ClampedDt(dt) ==
    IF dt < 302400 THEN 302400 ELSE IF dt > 4838400 THEN 4838400 ELSE dt

\* target_to_bits(min(prev_target * dt' / two_weeks, 0xFFFF * 256^26))
ExactNewBits(b, dt) ==
    Call1(LAMBDA t:
            target_to_bits(IntTarget(IF BigLess(MaxTarget, t)
                                     THEN MaxTarget ELSE t)),
          ExactNewTarget(b, ClampedDt(dt)))

\* C22: calculate_new_bits(prev_bits, dt) is target_to_bits of
\* min(prev_target * dt' / two_weeks, 0xFFFF * 256^26) in exact integer
\* arithmetic, dt' being dt clamped into [two_weeks / 4, 4 * two_weeks].
C22_RetargetExact ==
    bpc = "retargeted" => next_bits = ExactNewBits(cur_bits, elapsed)

\* What holds of the code: the same whenever the true division of
\* prev_target * dt by two_weeks does not overflow a float
C22_ExactUnlessOverflow ==
    (bpc = "retargeted"
        /\ NewTarget(bits_to_target(cur_bits), Clamp(elapsed)).ok) =>
        next_bits = ExactNewBits(cur_bits, elapsed)

\* No caller is inside fetch
AllReturned == \A p \in Fetchers : fpc[p] = "idle"

\* The cache file holds a transaction whose id is the requested one
CacheHoldsRequested == Fetch(FundingId :> cache.bytes, FundingId).ok

\* C23: concurrent fetch calls for the same id are idempotent: under every
\* interleaving each call returns the same decoded transaction, none
\* fails, and the cache file ends with the bytes a single fetch leaves.
C23_ConcurrentFetchIdempotent ==
    api = "honest" =>
        /\ \A p \in Fetchers :
              /\ fres[p].ret # "raise"
              /\ fres[p].ret = "tx" => fres[p].tx.v = Funding
        /\ (AllReturned /\ cache.exists) => cache.bytes = GoodRaw

\* What holds of the code: a call that returns returns the transaction,
\* and once every call has returned the file holds the downloaded bytes
C23_ReturnedIsRequested ==
    api = "honest" =>
        /\ \A p \in Fetchers :
              fres[p].ret = "tx" => fres[p].tx.v = Funding
        /\ (AllReturned /\ cache.exists) => cache.bytes = GoodRaw

\* C30: after any sequence of fetch calls the cache file of an id holds
\* bytes that decode to a transaction with that id: a fetch whose download
\* fails the id check raises and leaves the cache unchanged.
C30_CacheEntryMatchesId ==
    (AllReturned /\ cache.exists) => CacheHoldsRequested

\* What holds of the code: no call returns a transaction with another id,
\* and the file of an honest download matches its id
C30_NeverReturnsOtherId ==
    /\ \A p \in Fetchers : fres[p].ret = "tx" => fres[p].tx.v = Funding
    /\ (AllReturned /\ cache.exists /\ api = "honest") => CacheHoldsRequested

\* The canonical seven commands of a P2PKH spend: signature, public key,
\* OP_DUP, OP_HASH160, hash, OP_EQUALVERIFY, OP_CHECKSIG
CanonicalShape(s) ==
    /\ Len(s) = 7
    /\ s[1].t = "data" /\ s[2].t = "data" /\ s[5].t = "data"
    /\ <<s[3], s[4], s[6], s[7]>> =
         <<Op(OP_DUP), Op(OP_HASH160), Op(OP_EQUALVERIFY), Op(OP_CHECKSIG)>>

\* HASH160 of the public key command is the hash command
HashMatches(s) == s[5].v = hash160(s[2].v)

\* The signature command ends with SIGHASH_ALL and the rest, decoded from
\* DER, verifies under the SEC-decoded public key
SignatureAccepts(s, m) ==
    /\ s[1].v # <<>>
    /\ s[1].v[Len(s[1].v)] = 1
    /\ Call2(LAMBDA sg, pk:
               sg.ok /\ pk.ok /\ Call3(verify, pk.v, m, sg.v) = "true",
             SignatureDecode(SubSeq(s[1].v, 1, Len(s[1].v) - 1)),
             PublicKeyDecode(s[2].v))

\* C24: Script.evaluate returns true only if the script has the canonical
\* seven-command P2PKH shape, HASH160(pubkey) is the hash command, the last
\* byte of the signature command is 0x01 and the DER-decoded rest verifies
\* under the SEC-decoded key over the modified-transaction encoding; the
\* checks run in that order, so a hash mismatch returns false whatever the
\* signature command holds.
C24_EvaluateTrueOnlyIf ==
    spc = "evaluated" =>
        /\ accepted = "true" =>
              /\ CanonicalShape(combined)
              /\ HashMatches(combined)
              /\ SignatureAccepts(combined, preimage)
        /\ (CanonicalShape(combined) /\ ~HashMatches(combined)) =>
              accepted = "false"

\* evaluate returned true for a canonical spend
C24_SpendAccepted ==
    /\ spc = "evaluated" /\ accepted = "true"
    /\ CanonicalShape(combined)

\* evaluate returned false on a hash mismatch, the signature command
\* holding no signature
C24_MismatchBeforeSignature ==
    /\ spc = "evaluated" /\ accepted = "false"
    /\ CanonicalShape(combined) /\ combined[1].v = <<0>>

\* Whether a third point R sits where the line of slope m through P meets
\* the curve again, mirrored
OnLine(P, Q, R, m) ==
    /\ (R.x - (m * m - P.x - Q.x)) % BITCOIN.p = 0
    /\ (R.y + (m * (R.x - P.x) + P.y)) % BITCOIN.p = 0

\* m is the slope of the tangent at P
IsTangent(P, m) ==
    (2 * P.y * m - (3 * P.x * P.x + BITCOIN.a)) % BITCOIN.p = 0

\* m is the slope of the secant through P and Q
IsSecant(P, Q, m) == ((P.x - Q.x) * m - (P.y - Q.y)) % BITCOIN.p = 0

\* -P
Negated(P) == IF P = INF THEN INF ELSE [x |-> P.x, y |-> (-P.y) % BITCOIN.p]

\* R is the group-law sum of P and Q
GroupSum(P, Q, R) ==
    /\ R \in CurvePoints
    /\ P = INF => R = Q
    /\ Q = INF => R = P
    /\ Q = Negated(P) => R = INF
    /\ (P # INF /\ Q # INF /\ Q # Negated(P)) =>
          /\ R # INF
          /\ \E m \in 0..(BITCOIN.p - 1) :
                /\ IF P = Q THEN IsTangent(P, m) ELSE IsSecant(P, Q, m)
                /\ OnLine(P, Q, R, m)

C27_SecantAdded ==
    /\ ppc = "added" /\ augend # INF /\ addend # INF
    /\ augend.x # addend.x /\ total.pq # INF

\* The push of an element as the specification lays it out
TightPush(b) ==
    IF 1 <= Len(b) /\ Len(b) <= 75 THEN Bytes(<<Len(b)>> \o b)
    ELSE IF 76 <= Len(b) /\ Len(b) <= 255 THEN Bytes(<<76, Len(b)>> \o b)
    ELSE IF 256 <= Len(b) /\ Len(b) <= 520
    THEN Bytes(<<77, Len(b) % 256, Len(b) \div 256>> \o b)
    ELSE NoBytes

\* The body of a script whose elements are pushed that way
TightBody(cmds) ==
    Join([i \in 1..Len(cmds) |->
            IF cmds[i].t = "op" THEN Bytes(<<cmds[i].v>>)
            ELSE TightPush(cmds[i].v)])

\* The varint of the length of the body, and the body
Prefixed(body) ==
    IF body.ok THEN Bytes(encode_varint(Len(body.v)) \o body.v) ELSE NoBytes

\* C25: Script.encode emits an element of 1..75 bytes as a direct push, of
\* 76..255 bytes as PUSHDATA1 with a 1-byte length, of 256..520 bytes as
\* PUSHDATA2 with a 2-byte little-endian length, and rejects a longer one;
\* the body is prefixed with the varint of its length.
C25_EncodeTightestForm ==
    kpc = "encoded" => written = Prefixed(TightBody(ItemsCmds(holder)))

\* What holds of the code: the same for scripts with no element of 75 bytes
C25_TightExceptAt75 ==
    (kpc = "encoded" /\ \A i \in 1..Len(holder) :
                          holder[i].form = "op" \/ holder[i].n # 75) =>
        written = Prefixed(TightBody(ItemsCmds(holder)))

\* C26: Script.decode reads a command byte 1..75 as a push of that many
\* bytes, 76 as PUSHDATA1 with a 1-byte length, 77 as PUSHDATA2 with a
\* 2-byte little-endian length, 78 as PUSHDATA4 with a 4-byte length, and
\* records any other byte as an integer opcode.
C26_DecodeEachForm ==
    kpc = "decoded" =>
        parsed = [ok |-> TRUE, v |-> ItemsCmds(holder), rest |-> <<>>]

\* What holds of the code: the same for bodies with no PUSHDATA4
C26_DecodeUpToPushdata2 ==
    (kpc = "decoded" /\ \A i \in 1..Len(holder) :
                          holder[i].form # "pushdata4") =>
        parsed = [ok |-> TRUE, v |-> ItemsCmds(holder), rest |-> <<>>]

\* C28: Block.decode returns a header only after reading exactly 80 bytes
\* and raises a decode error when the stream holds fewer; for every
\* 80-byte string b, Block.decode(b).encode() is b.
C28_HeaderIsEightyBytes ==
    /\ kpc = "decoded" =>
          /\ parsed.ok <=> Len(octets) >= HeaderLen
          /\ parsed.ok => parsed.rest = Drop(octets, HeaderLen)
    /\ (kpc = "encoded" /\ Len(octets) = HeaderLen) => written = Bytes(octets)

\* What holds of the code: the round trip of the first 80 bytes of a
\* stream that holds them
C28_WholeHeaderRoundTrip ==
    (kpc = "encoded" /\ Len(octets) >= HeaderLen) =>
        written = Bytes(Take(octets, HeaderLen))

\* handshake() is the call in progress, and the first call on the node
InHandshake == ncalls = 0 /\ caller \in {"hs_version", "hs_verack"}

\* Frame f carries a well-formed envelope with command c
Carries(f, c) == Read(f).ok /\ Read(f).command = c

\* The frames fs hold a version envelope and, later, a verack envelope
VersionThenVerAck(fs) ==
    \E i, j \in 1..Len(fs) :
        i < j /\ Carries(fs[i], CmdVersion) /\ Carries(fs[j], CmdVerAck)

\* The same, every frame up to that verack being a well-formed envelope
ReadableVersionThenVerAck(fs) ==
    \E i, j \in 1..Len(fs) :
        /\ i < j /\ Carries(fs[i], CmdVersion) /\ Carries(fs[j], CmdVerAck)
        /\ \A k \in 1..j : Read(fs[k]).ok

\* handshake() has sent its closing verack and returned only if it read a
\* version and, after it, a verack
CompletedOnlyAfterBoth ==
    (ncalls = 0 /\ handshaken) =>
        /\ sent[Len(sent)].command = CmdVerAck
        /\ VersionThenVerAck(consumed)

\* C29: handshake() completes if and only if, after the local version is
\* sent, the peer's stream contains a version envelope followed later by a
\* verack envelope; a verack that arrives before the peer's version is
\* consumed and does not count.
C29_CompletesIffVersionThenVerAck ==
    /\ []CompletedOnlyAfterBoth
    /\ (InHandshake /\ VersionThenVerAck(arrived)) ~> handshaken

\* C29 (amended): the same, for a stream whose frames up to that verack
\* are all well-formed envelopes; read() raises on any other frame and
\* handshake() does not complete.
C29_CompletesIffReadable ==
    /\ []CompletedOnlyAfterBoth
    /\ (InHandshake /\ ReadableVersionThenVerAck(arrived)) ~> handshaken
    /\ []((ncalls = 0 /\ npc = "crashed") => ~handshaken)

\* handshake() completed on a stream that opened with a verack
C29_EarlyVerAckDiscarded ==
    /\ ncalls = 0 /\ handshaken
    /\ Len(consumed) = 3
    /\ ReadAt(1, CmdVerAck) /\ ReadAt(2, CmdVersion) /\ ReadAt(3, CmdVerAck)

=============================================================================
